---------------------------- MODULE Spec2Model ----------------------------
(***************************************************************************)
(* A model of the nutrition-advisor repository: the Requirement Key        *)
(* Resolver (get_age_group, _extract_age_from_query,                       *)
(* _extract_gender_from_query), the lookup tools (NutritionLookupTool,     *)
(* DietaryRequirementsTool, TavilySearchTool) over their vector stores,    *)
(* and the text-to-speech endpoint of the web API.                         *)
(*                                                                         *)
(* Texts are sequences of one-character strings, so that substring and     *)
(* regular-expression matching are computed as the code computes them.     *)
(* An optional integer is <<>> (None) or <<n>>.  Every value a variable    *)
(* takes is a record, and a field name has one type wherever it is used.   *)
(***************************************************************************)
EXTENDS Integers, Sequences, FiniteSets, TLC

VARIABLES
    call,               \* the last invocation: [fn |-> ..., <arguments>]
    result,             \* what that invocation returned (or raised)
    trace,              \* the collaborator calls that invocation made, in order
    tables,             \* the three dietary source files on disk
    data_cache,         \* DietaryRequirementsVectorStore._data_cache
    dietary_docs,       \* the dietary collection, as ranked by a query
    food_json,          \* the food catalog file on disk
    food_data_cache,    \* NutritionVectorStore._food_data_cache
    food_docs,          \* the food collection, as ranked by a query
    file_reads,         \* how often the stores have opened each source file
    elevenlabs_client,  \* web/api.py's global elevenlabs_client
    agent,              \* web/api.py's global agent
    memory,             \* the conversation state of the agent
    tavily_client       \* TavilySearchTool's _client

vars == <<call, result, trace, tables, data_cache, dietary_docs, food_json,
          food_data_cache, food_docs, file_reads, elevenlabs_client, agent, memory,
          tavily_client>>

storeVars == <<tables, data_cache, dietary_docs, food_json, food_data_cache,
               food_docs, file_reads>>
webVars == <<elevenlabs_client, agent, memory, tavily_client>>

None == "None"
NoneInt == <<>>
Some(n) == <<n>>

Min(a, b) == IF a <= b THEN a ELSE b
Max(a, b) == IF a >= b THEN a ELSE b

RECURSIVE Concat(_)
Concat(ss) == IF ss = <<>> THEN <<>> ELSE Head(ss) \o Concat(Tail(ss))

\* `value`, evaluated once, handed to the rest of a computation
Let(value, Rest(_)) == CHOOSE r \in {Rest(v) : v \in {value}} : TRUE

Take(s, n) == SubSeq(s, 1, Min(n, Len(s)))

(***************************************************************************)
(* Requirement Key Resolver: get_age_group                                 *)
(***************************************************************************)

\* float('inf'), the upper end of the last range: above every age of the model
Infinity == 1000000

\* a plausible slip: the lowest range open below
age_ranges_open_below ==
    << <<0 - Infinity, 1, "1">>, <<2, 3, "2-3">>, <<4, 6, "4-6">>, <<7, 10, "7-10">>,
       <<11, 14, "11-14">>, <<15, 18, "15-18">>, <<19, 64, "19-64">>,
       <<65, 74, "65-74">>, <<75, Infinity, "75+">> >>

age_ranges ==
    << <<1, 1, "1">>, <<2, 3, "2-3">>, <<4, 6, "4-6">>, <<7, 10, "7-10">>,
       <<11, 14, "11-14">>, <<15, 18, "15-18">>, <<19, 64, "19-64">>,
       <<65, 74, "65-74">>, <<75, Infinity, "75+">> >>

\* the for loop of get_age_group from range i on; "75+" is the fallback
RECURSIVE ScanRanges(_, _, _)
ScanRanges(ranges, age, i) ==
    IF i > Len(ranges) THEN "75+"
    ELSE IF ranges[i][1] <= age /\ age <= ranges[i][2] THEN ranges[i][3]
    ELSE ScanRanges(ranges, age, i + 1)

\* a plausible slip: the 19-64 range written as 18-64, after 15-18
age_ranges_off_by_one ==
    [age_ranges EXCEPT ![6] = <<15, 17, "15-18">>, ![7] = <<18, 64, "19-64">>]

get_age_group_mutant(age) == ScanRanges(age_ranges_off_by_one, age, 1)

\* a plausible slip: a fallback of the label that was scanned last
get_age_group_last_label(age) ==
    IF \E i \in 1..Len(age_ranges) : age_ranges[i][1] <= age /\ age <= age_ranges[i][2]
    THEN ScanRanges(age_ranges, age, 1)
    ELSE age_ranges[1][3]

get_age_group(age) == ScanRanges(age_ranges, age, 1)

(***************************************************************************)
(* Characters and texts                                                    *)
(***************************************************************************)

Digits == {"0", "1", "2", "3", "4", "5", "6", "7", "8", "9"}
IsDigit(c) == c \in Digits

DigitVal(c) ==
    CASE c = "0" -> 0 [] c = "1" -> 1 [] c = "2" -> 2 [] c = "3" -> 3
      [] c = "4" -> 4 [] c = "5" -> 5 [] c = "6" -> 6 [] c = "7" -> 7
      [] c = "8" -> 8 [] c = "9" -> 9

\* the characters of the model that are not \w of the regular expressions
NonWordChars == {" ", "-", ",", "?", "'"}
IsWordChar(c) == c \notin NonWordChars

\* [-\s] of the patterns
IsSep(c) == c \in {"-", " "}

\* str.lower(), on the upper-case letters the model's texts use
LowerChar(c) ==
    CASE c = "A" -> "a" [] c = "B" -> "b" [] c = "G" -> "g" [] c = "M" -> "m"
      [] c = "W" -> "w" [] c = "Y" -> "y" [] OTHER -> c

Lower(s) == [i \in 1..Len(s) |-> LowerChar(s[i])]

\* lit occurs in s at position i
HasLit(s, i, lit) ==
    /\ i >= 1
    /\ i + Len(lit) - 1 <= Len(s)
    /\ \A k \in 1..Len(lit) : s[i + k - 1] = lit[k]

\* Python's `lit in s`
Contains(s, lit) == \E i \in 1..Len(s) : HasLit(s, i, lit)

\* int() of a run of digits
RECURSIVE IntOf(_)
IntOf(ds) ==
    IF ds = <<>> THEN 0
    ELSE 10 * IntOf(SubSeq(ds, 1, Len(ds) - 1)) + DigitVal(ds[Len(ds)])

\* the end of the run of digits that starts at i (\d+ is greedy)
RECURSIVE RunEnd(_, _)
RunEnd(s, i) ==
    IF i + 1 <= Len(s) /\ IsDigit(s[i + 1]) THEN RunEnd(s, i + 1) ELSE i

(***************************************************************************)
(* Requirement Key Resolver: _extract_age_from_query                       *)
(***************************************************************************)

Chars(str) ==
    CASE str = "year"  -> <<"y", "e", "a", "r">>
      [] str = "years" -> <<"y", "e", "a", "r", "s">>
      [] str = "old"   -> <<"o", "l", "d">>
      [] str = "age"   -> <<"a", "g", "e">>
      [] str = "aged"  -> <<"a", "g", "e", "d">>
      [] str = "male"  -> <<"m", "a", "l", "e">>
      [] str = "man"   -> <<"m", "a", "n">>
      [] str = "boy"   -> <<"b", "o", "y">>
      [] str = "female" -> <<"f", "e", "m", "a", "l", "e">>
      [] str = "woman" -> <<"w", "o", "m", "a", "n">>
      [] str = "girl"  -> <<"g", "i", "r", "l">>

\* the five patterns, in the order of the list `patterns`
patterns == <<"N-year-old", "age N", "aged N", "N-years-old", "bare N">>

\* (\d+)[-\s]<unit>[-\s]old matches at i; the group is s[i..RunEnd(s, i)]
NumUnitOldAt(s, i, unit) ==
    /\ IsDigit(s[i])
    /\ LET j == RunEnd(s, i)
           u == j + 2
           o == u + Len(unit) + 1
       IN  /\ j + 1 <= Len(s) /\ IsSep(s[j + 1])
           /\ HasLit(s, u, unit)
           /\ o - 1 <= Len(s) /\ IsSep(s[o - 1])
           /\ HasLit(s, o, Chars("old"))

\* <word>[-\s](\d+) matches at i; the group starts at i + Len(word) + 1
WordNumAt(s, i, word) ==
    /\ HasLit(s, i, word)
    /\ i + Len(word) + 1 <= Len(s)
    /\ IsSep(s[i + Len(word)])
    /\ IsDigit(s[i + Len(word) + 1])

\* \b(\d+)\b matches at i: a whole run of digits with no \w on either side
BareNumAt(s, i) ==
    /\ IsDigit(s[i])
    /\ i = 1 \/ ~IsWordChar(s[i - 1])
    /\ LET j == RunEnd(s, i) IN j = Len(s) \/ ~IsWordChar(s[j + 1])

MatchesAt(p, s, i) ==
    CASE p = "N-year-old"  -> NumUnitOldAt(s, i, Chars("year"))
      [] p = "age N"       -> WordNumAt(s, i, Chars("age"))
      [] p = "aged N"      -> WordNumAt(s, i, Chars("aged"))
      [] p = "N-years-old" -> NumUnitOldAt(s, i, Chars("years"))
      [] p = "bare N"      -> BareNumAt(s, i)

\* where group 1 of a match at i starts
GroupStart(p, i) ==
    CASE p = "age N" -> i + 4 [] p = "aged N" -> i + 5 [] OTHER -> i

\* int(match.group(1)) of the match at i
GroupValue(p, s, i) ==
    LET g == GroupStart(p, i) IN IntOf(SubSeq(s, g, RunEnd(s, g)))

\* re.search(pattern, s): the leftmost match, <<>> when there is none
ReSearch(p, s) ==
    LET starts == {i \in 1..Len(s) : MatchesAt(p, s, i)}
    IN  IF starts = {} THEN <<>>
        ELSE <<CHOOSE i \in starts : \A k \in starts : i <= k>>

\* 1 <= age <= 120
AgeInRange(age) == 1 <= age /\ age <= 120

\* the loop over patterns from pattern k on
RECURSIVE ExtractAgeFrom(_, _)
ExtractAgeFrom(s, k) ==
    IF k > Len(patterns) THEN NoneInt
    ELSE LET m == ReSearch(patterns[k], s)
         IN  IF m # <<>> /\ AgeInRange(GroupValue(patterns[k], s, m[1]))
             THEN Some(GroupValue(patterns[k], s, m[1]))
             ELSE ExtractAgeFrom(s, k + 1)

extract_age_from_query(query) == ExtractAgeFrom(Lower(query), 1)

(***************************************************************************)
(* Requirement Key Resolver: _extract_gender_from_query                    *)
(***************************************************************************)

extract_gender_from_query(query) ==
    LET query_lower == Lower(query)
    IN  IF \/ Contains(query_lower, Chars("male"))
           \/ Contains(query_lower, Chars("man"))
           \/ Contains(query_lower, Chars("boy"))
        THEN "male"
        ELSE IF \/ Contains(query_lower, Chars("female"))
                \/ Contains(query_lower, Chars("woman"))
                \/ Contains(query_lower, Chars("girl"))
        THEN "female"
        ELSE None

(***************************************************************************)
(* Inputs of the resolver                                                  *)
(***************************************************************************)

\* the longest text, in tokens
MaxTokens == 3
\* how many ages below 1 and above 120 are tried
AgesOutside == 5

Tokens ==
    { <<"3", "0">>,
      <<"2", "0", "0">>,
      <<"5">>,
      <<" ">>,
      <<"-", "y", "e", "a", "r", "-", "o", "l", "d">>,
      <<" ", "y", "e", "a", "r", "s", " ", "o", "l", "d">>,
      <<"a", "g", "e", " ">>,
      <<"a", "g", "e", "d", " ">>,
      <<"w", "o", "m", "a", "n">>,
      <<"m", "a", "l", "e">>,
      <<"G", "i", "r", "l">>,
      <<"x">> }

\* "a 30 year old woman"
ExampleWoman ==
    <<"a", " ", "3", "0", " ", "y", "e", "a", "r", " ", "o", "l", "d", " ",
      "w", "o", "m", "a", "n">>

\* "requirements for 30-year-old male"
ExampleMale ==
    <<"r", "e", "q", "u", "i", "r", "e", "m", "e", "n", "t", "s", " ",
      "f", "o", "r", " ", "3", "0", "-", "y", "e", "a", "r", "-", "o", "l", "d",
      " ", "m", "a", "l", "e">>

\* every text of 1..MaxTokens tokens, and the two examples
Texts ==
    {ExampleWoman, ExampleMale} \cup
    UNION {{Concat(ts) : ts \in [1..n -> Tokens]} : n \in 1..MaxTokens}

Ages == (1 - AgesOutside)..(120 + AgesOutside)

Idle == [fn |-> "idle"]

\* the resolver reads no file and no cache
NoFiles == [file |-> "missing"]
NoCache == [loaded |-> FALSE]

\* no source file has been opened
NoReads == [food |-> 0, minerals |-> 0, vitamins |-> 0, nutrition |-> 0]

\* the count of every file of `names` raised by one
Bump(reads, names) ==
    [f \in DOMAIN reads |-> IF f \in names THEN reads[f] + 1 ELSE reads[f]]

(***************************************************************************)
(* The resolver's operations                                               *)
(***************************************************************************)

ResolverInit ==
    /\ call = Idle
    /\ result = Idle
    /\ trace = <<>>
    /\ tables = NoFiles
    /\ data_cache = NoCache
    /\ dietary_docs = <<>>
    /\ food_json = NoFiles
    /\ food_data_cache = NoCache
    /\ food_docs = <<>>
    /\ elevenlabs_client = None
    /\ agent = None
    /\ memory = <<>>
    /\ file_reads = NoReads
    /\ tavily_client = None

GetAgeGroupCall ==
    /\ call = Idle
    /\ \E age \in Ages :
        /\ call' = [fn |-> "get_age_group", age |-> age]
        /\ result' = [label |-> get_age_group(age)]
    /\ UNCHANGED <<trace, storeVars, webVars>>

ExtractAgeCall ==
    /\ call = Idle
    /\ \E query \in Texts :
        /\ call' = [fn |-> "_extract_age_from_query", query |-> query]
        /\ result' = [extracted_age |-> extract_age_from_query(query)]
    /\ UNCHANGED <<trace, storeVars, webVars>>

ExtractGenderCall ==
    /\ call = Idle
    /\ \E query \in Texts :
        /\ call' = [fn |-> "_extract_gender_from_query", query |-> query]
        /\ result' = [gender |-> extract_gender_from_query(query)]
    /\ UNCHANGED <<trace, storeVars, webVars>>

\* the caller takes the result; the next invocation can start
Return ==
    /\ call.fn \notin {"idle", "startup", "startup failed"}
    /\ call' = Idle
    /\ result' = Idle
    /\ trace' = <<>>
    /\ UNCHANGED <<storeVars, webVars>>

ResolverNext ==
    \/ GetAgeGroupCall
    \/ ExtractAgeCall
    \/ ExtractGenderCall
    \/ Return

SpecResolver == ResolverInit /\ [][ResolverNext]_vars

(***************************************************************************)
(* Claims about the resolver                                               *)
(***************************************************************************)

\* the nine ranges as the specification lists them
NineRanges ==
    << <<1, 1, "1">>, <<2, 3, "2-3">>, <<4, 6, "4-6">>, <<7, 10, "7-10">>,
       <<11, 14, "11-14">>, <<15, 18, "15-18">>, <<19, 64, "19-64">>,
       <<65, 74, "65-74">>, <<75, 120 + AgesOutside, "75+">> >>

RangesContaining(age) ==
    {i \in 1..Len(NineRanges) :
        NineRanges[i][1] <= age /\ age <= NineRanges[i][2]}

\* C1: for every integer age in [1,120] exactly one of the nine ranges
\* contains the age, and get_age_group(age) returns the label of that range;
\* in particular 23 -> "19-64", 5 -> "4-6", 80 -> "75+".
C1_AgeGroupPartition ==
    (call.fn = "get_age_group" /\ call.age \in 1..120) =>
        /\ Cardinality(RangesContaining(call.age)) = 1
        /\ \A i \in RangesContaining(call.age) : result.label = NineRanges[i][3]
        /\ call.age = 23 => result.label = "19-64"
        /\ call.age = 5 => result.label = "4-6"
        /\ call.age = 80 => result.label = "75+"

C1_Witness ==
    call.fn = "get_age_group" /\ call.age = 23 /\ result.label = "19-64"

FemaleKeywords == {Chars("female"), Chars("woman"), Chars("girl")}
MaleKeywords == {Chars("male"), Chars("man"), Chars("boy")}

\* the occurrences <<first, last>> in s of the keywords of a group
Occurrences(s, keywords) ==
    UNION {{<<i, i + Len(w) - 1>> : i \in {k \in 1..Len(s) : HasLit(s, k, w)}} :
           w \in keywords}

\* a male keyword that is not a part of "female" or "woman" occurs in s
HasOwnMaleKeyword(s) ==
    \E m \in Occurrences(s, MaleKeywords) :
        ~\E f \in Occurrences(s, FemaleKeywords) : f[1] <= m[1] /\ m[2] <= f[2]

\* C5: _extract_gender_from_query returns "female" for every text whose only
\* gender keyword belongs to the female group (e.g. "a 30 year old woman"),
\* "male" for every text whose only gender keyword belongs to the male
\* group, and none when the text contains no keyword of either group.
C5_GenderOfOnlyKeyword ==
    call.fn = "_extract_gender_from_query" =>
        LET s == Lower(call.query)
            female == Occurrences(s, FemaleKeywords) # {}
            male == HasOwnMaleKeyword(s)
        IN  /\ (female /\ ~male) => result.gender = "female"
            /\ (male /\ ~female) => result.gender = "male"
            /\ (~female /\ ~male) => result.gender = None

\* the matches of pattern p in s, as re.finditer yields them
MatchStarts(p, s) ==
    {i \in 1..Len(s) :
        /\ MatchesAt(p, s, i)
        /\ ~(IsDigit(s[i]) /\ i > 1 /\ IsDigit(s[i - 1]))}

\* the value of the first match of p in s whose value lies in [1,120]
FirstInRange(p, s) ==
    LET ok == {i \in MatchStarts(p, s) :
                  GroupValue(p, s, i) \in 1..120}
    IN  IF ok = {} THEN <<>>
        ELSE <<GroupValue(p, s, CHOOSE i \in ok : \A k \in ok : i <= k)>>

\* the first pattern in priority order with a match in [1,120] decides
RECURSIVE FirstInRangeFrom(_, _)
FirstInRangeFrom(s, k) ==
    IF k > Len(patterns) THEN <<>>
    ELSE IF FirstInRange(patterns[k], s) # <<>> THEN FirstInRange(patterns[k], s)
    ELSE FirstInRangeFrom(s, k + 1)

\* C6: _extract_age_from_query tries the patterns in the fixed priority
\* order and returns the value of the first match whose integer value lies
\* in [1,120]; every non-none result lies in [1,120]; a specific pattern wins
\* over a bare number that occurs earlier in the text; and the result is none
\* only when no match of any pattern has a value in [1,120].
C6_FirstMatchInRange ==
    call.fn = "_extract_age_from_query" =>
        LET s == Lower(call.query)
            age == result.extracted_age
        IN  /\ age = FirstInRangeFrom(s, 1)
            /\ age # <<>> => age[1] \in 1..120
            /\ age = <<>> =>
                 \A k \in 1..Len(patterns) : FirstInRange(patterns[k], s) = <<>>

(***************************************************************************)
(* DietaryRequirementsVectorStore                                          *)
(***************************************************************************)

Genders == {"male", "female"}

AgeLabels == <<"1", "2-3", "4-6", "7-10", "11-14", "15-18", "19-64", "65-74", "75+">>

\* the nutrient mappings the source files hold for a pair they list: a key is
\* split at its underscores, a value is a number, a range string, a
\* sub-mapping or null
EntriesOf(group) ==
    CASE group = "minerals" ->
           << [key |-> <<"calcium", "mg">>, kind |-> "number"],
              [key |-> <<"iron", "mg">>, kind |-> "dict"],
              [key |-> <<"zinc", "mg">>, kind |-> "number"],
              [key |-> <<"iodine", "ug">>, kind |-> "number"] >>
      [] group = "vitamins" ->
           << [key |-> <<"vitamin", "a", "ug">>, kind |-> "number"],
              [key |-> <<"vitamin", "d", "ug">>, kind |-> "str"],
              [key |-> <<"folate">>, kind |-> "none"],
              [key |-> <<"vitamin", "c", "mg">>, kind |-> "number"] >>
      [] group = "nutrition" ->
           << [key |-> <<"energy", "kcal">>, kind |-> "number"],
              [key |-> <<"protein", "g">>, kind |-> "number"] >>

\* one source file: missing, not parseable, parsed to a list, or parsed to a
\* mapping age group -> gender -> nutrients that lists `pairs`
SourceFile(file, pairs) == [file |-> file, pairs |-> pairs]

EmptyCache ==
    [loaded |-> FALSE,
     minerals |-> [shape |-> "dict", pairs |-> {}],
     vitamins |-> [shape |-> "dict", pairs |-> {}],
     nutrition |-> [shape |-> "dict", pairs |-> {}]]

\* one `if path and path.exists(): try: json.load except: print` block
LoadTable(f) ==
    IF f.file = "ok" THEN [shape |-> "dict", pairs |-> f.pairs]
    ELSE IF f.file = "list" THEN [shape |-> "list", pairs |-> {}]
    ELSE [shape |-> "dict", pairs |-> {}]

\* _load_data_cache
load_data_cache(cache, files) ==
    IF cache.loaded THEN cache
    ELSE [loaded |-> TRUE,
          minerals |-> LoadTable(files.minerals),
          vitamins |-> LoadTable(files.vitamins),
          nutrition |-> LoadTable(files.nutrition)]

\* cache.get(group, {}).get(age_group, {}).get(gender, {})
GroupOf(cache, group, age_group, gender) ==
    IF <<age_group, gender>> \in cache[group].pairs THEN EntriesOf(group) ELSE <<>>

\* get_requirements_by_key on the loaded cache: .get on a list raises
get_requirements_by_key(cache, age_group, gender) ==
    IF \E g \in {"minerals", "vitamins", "nutrition"} : cache[g].shape = "list"
    THEN [raised |-> "AttributeError", found |-> FALSE, age_group |-> age_group,
          gender |-> gender, minerals |-> <<>>, vitamins |-> <<>>, nutrition |-> <<>>]
    ELSE LET minerals == GroupOf(cache, "minerals", age_group, gender)
             vitamins == GroupOf(cache, "vitamins", age_group, gender)
             nutrition == GroupOf(cache, "nutrition", age_group, gender)
         IN  [raised |-> None,
              found |-> minerals # <<>> \/ vitamins # <<>> \/ nutrition # <<>>,
              age_group |-> age_group, gender |-> gender,
              minerals |-> minerals, vitamins |-> vitamins, nutrition |-> nutrition]

\* collection.query(n_results): at most n_results of the ranked documents
CollectionQuery(docs, n_results) == Take(docs, n_results)

\* search of both stores: the embedding or the query may fail
search(docs, n_results, fails) ==
    IF fails THEN [raised |-> "RuntimeError", hits |-> <<>>]
    ELSE [raised |-> None, hits |-> CollectionQuery(docs, n_results)]

(***************************************************************************)
(* NutritionVectorStore                                                    *)
(***************************************************************************)

\* the foodNutrients of the catalog's items
FoodNutrientsOf(fdc_id) ==
    CASE fdc_id = 1 ->
           << [name |-> "Water", amount |-> <<85>>, unit |-> "g"],
              [name |-> "Sugars, total including NLEA", amount |-> <<10>>, unit |-> "g"],
              [name |-> "Sodium, Na", amount |-> <<1>>, unit |-> "mg"],
              [name |-> "Vitamin C, total ascorbic acid", amount |-> <<4>>, unit |-> "mg"],
              [name |-> "Iron, Fe", amount |-> <<0>>, unit |-> "mg"],
              [name |-> "Calcium, Ca", amount |-> <<6>>, unit |-> "mg"],
              [name |-> "Fiber, total dietary", amount |-> <<2>>, unit |-> "g"],
              [name |-> "Carbohydrate, by difference", amount |-> <<14>>, unit |-> "g"],
              [name |-> "Total lipid (fat)", amount |-> <<1>>, unit |-> "g"],
              [name |-> "Protein", amount |-> <<1>>, unit |-> "g"],
              [name |-> "Energy", amount |-> <<52>>, unit |-> "kcal"],
              [name |-> "Potassium, K", amount |-> <<107>>, unit |-> "mg"] >>
      [] fdc_id = 2 ->
           << [name |-> "Water", amount |-> <<60>>, unit |-> "g"],
              [name |-> "Ash", amount |-> <<>>, unit |-> "g"],
              [name |-> "Protein", amount |-> <<20>>, unit |-> "g"],
              [name |-> "Zinc, Zn", amount |-> <<3>>, unit |-> "mg"],
              [name |-> "Energy", amount |-> <<0>>, unit |-> "kJ"],
              [name |-> "Energy", amount |-> <<200>>, unit |-> "kcal"],
              [name |-> "", amount |-> <<7>>, unit |-> "g"] >>
      [] OTHER -> <<>>

EmptyFoodCache == [loaded |-> FALSE, foods |-> {}]

\* a plausible slip: a load that failed leaves the cache unset
load_food_data_cache_retrying(cache, json) ==
    IF cache.loaded THEN cache
    ELSE IF json.file = "ok" THEN [loaded |-> TRUE, foods |-> json.foods]
    ELSE [loaded |-> FALSE, foods |-> {}]

\* _load_food_data_cache: {str(fdcId): food}, or {} when the file is missing
\* or cannot be read
load_food_data_cache(cache, json) ==
    IF cache.loaded THEN cache
    ELSE IF json.file = "ok" THEN [loaded |-> TRUE, foods |-> json.foods]
    ELSE [loaded |-> TRUE, foods |-> {}]

\* get_food_by_id on the loaded cache; the fallback collection.get may fail,
\* and the metadata it returns carries no full_data
get_food_by_id(cache, fdc_id, fails) ==
    IF fdc_id \in cache.foods
    THEN [raised |-> None, foodNutrients |-> FoodNutrientsOf(fdc_id)]
    ELSE IF fails THEN [raised |-> "RuntimeError", foodNutrients |-> <<>>]
    ELSE [raised |-> None, foodNutrients |-> <<>>]

\* the files _load_data_cache opens: none when the cache is set, else those
\* that exist
TablesOpened(cache, files) ==
    IF cache.loaded THEN {}
    ELSE {g \in {"minerals", "vitamins", "nutrition"} : files[g].file # "missing"}

\* the file _load_food_data_cache opens: none when the cache is set or the
\* file does not exist
FoodFileOpened(cache, json) ==
    IF cache.loaded \/ json.file = "missing" THEN {} ELSE {"food"}

(***************************************************************************)
(* The tools' common parts                                                 *)
(***************************************************************************)

\* a plausible slip: `except ValueError` in place of `except Exception`
CatchesOnlyValueError(exc) == exc = "ValueError"

\* except Exception: every exception of the model is an Exception
Catches(exc) == TRUE

\* try: <body> except Exception as e: return f"<prefix>: {str(e)}"
TryExcept(body, prefix) ==
    Let(body, LAMBDA out :
        IF out.raised # None /\ Catches(out.raised)
        THEN [out EXCEPT !.raised = None,
                         !.text = <<[t |-> prefix, exc |-> out.raised]>>]
        ELSE out)

\* what the trace keeps of a call of search: its n_results and the number of
\* hits it returned (-1 when it raised)
SearchCall(n_results, results) ==
    [m |-> "search", n_results |-> n_results, raised |-> results.raised,
     hits |-> IF results.raised # None THEN -1 ELSE Len(results.hits)]

\* what the trace keeps of a call of get_requirements_by_key
LookupCall(full_data) ==
    [m |-> "get_requirements_by_key", age_group |-> full_data.age_group,
     gender |-> full_data.gender, raised |-> full_data.raised,
     found |-> full_data.found]

\* a plausible slip: `if len(results) <= 1` in place of `if not results`
NoHitsOrOne(hits) == Len(hits) <= 1

\* not results
NoHits(hits) == hits = <<>>

\* a plausible slip: the upper limit left out
ClampNoUpper(max_results, limit) == Max(1, max_results)

\* min(max(1, max_results), limit)
Clamp(max_results, limit) == Min(Max(1, max_results), limit)

(***************************************************************************)
(* NutritionLookupTool.execute                                             *)
(***************************************************************************)

NutritionMaxResults == 20
KeyNutrientsShown == 8
OtherNutrientsScanned == 5

important_nutrients ==
    << [usda |-> "Energy", display |-> "Calories"],
       [usda |-> "Protein", display |-> "Protein"],
       [usda |-> "Total lipid (fat)", display |-> "Fat"],
       [usda |-> "Carbohydrate, by difference", display |-> "Carbs"],
       [usda |-> "Fiber, total dietary", display |-> "Fiber"],
       [usda |-> "Calcium, Ca", display |-> "Calcium"],
       [usda |-> "Iron, Fe", display |-> "Iron"],
       [usda |-> "Vitamin C, total ascorbic acid", display |-> "Vitamin C"],
       [usda |-> "Sodium, Na", display |-> "Sodium"],
       [usda |-> "Sugars, total including NLEA", display |-> "Sugars"] >>

IsImportant(name) ==
    \E k \in 1..Len(important_nutrients) : important_nutrients[k].usda = name

\* the loop that builds nutrient_map: a dict keeps the place of a name's first
\* insertion and the value of its last
RECURSIVE BuildNutrientMap(_, _)
BuildNutrientMap(nutrients, map) ==
    IF nutrients = <<>> THEN map
    ELSE LET nu == Head(nutrients)
             keep == nu.amount # <<>> /\ nu.amount # <<0>> /\ nu.name # ""
             map1 ==
                 IF ~keep THEN map
                 ELSE IF \E k \in 1..Len(map) : map[k].name = nu.name
                 THEN [k \in 1..Len(map) |->
                          IF map[k].name = nu.name THEN nu ELSE map[k]]
                 ELSE Append(map, nu)
         IN  BuildNutrientMap(Tail(nutrients), map1)

\* the loop over important_nutrients from entry k on
RECURSIVE ImportantFrom(_, _)
ImportantFrom(map, k) ==
    IF k > Len(important_nutrients) THEN <<>>
    ELSE LET here == {j \in 1..Len(map) : map[j].name = important_nutrients[k].usda}
         IN  (IF here = {} THEN <<>>
              ELSE LET j == CHOOSE j \in here : TRUE
                   IN  <<[label |-> important_nutrients[k].display,
                          amount |-> map[j].amount, unit |-> map[j].unit]>>)
             \o ImportantFrom(map, k + 1)

\* the loop over list(nutrient_map.items())[:5]
RECURSIVE OthersOf(_)
OthersOf(items) ==
    IF items = <<>> THEN <<>>
    ELSE (IF IsImportant(Head(items).name) THEN <<>>
          ELSE <<[label |-> Head(items).name, amount |-> Head(items).amount,
                  unit |-> Head(items).unit]>>)
         \o OthersOf(Tail(items))

\* a plausible slip: the list is joined without the cut to 8
KeyNutrientsUncut(foodNutrients) ==
    LET nutrient_map == BuildNutrientMap(foodNutrients, <<>>)
    IN  ImportantFrom(nutrient_map, 1)
            \o OthersOf(Take(nutrient_map, OtherNutrientsScanned))

\* key_nutrients[:8]
KeyNutrients(foodNutrients) ==
    LET nutrient_map == BuildNutrientMap(foodNutrients, <<>>)
    IN  Take(ImportantFrom(nutrient_map, 1)
                \o OthersOf(Take(nutrient_map, OtherNutrientsScanned)),
             KeyNutrientsShown)

\* the loop over the hits from hit i on; acc holds the lines, the calls made
\* and the cache so far
RECURSIVE FormatFoodHits(_, _, _, _, _)
FormatFoodHits(hits, i, acc, json, lookup_fails) ==
    IF i > Len(hits) \/ acc.raised # None THEN acc
    ELSE LET metadata == hits[i]
             lookup == metadata.fdc_id # 0
             cache1 == IF lookup THEN load_food_data_cache(acc.cache, json)
                       ELSE acc.cache
             full_data == IF lookup
                          THEN get_food_by_id(cache1, metadata.fdc_id, lookup_fails)
                          ELSE [raised |-> None, foodNutrients |-> <<>>]
             line == [t |-> "food entry", i |-> i,
                      description |-> metadata.description,
                      category |-> metadata.category,
                      key_nutrients |-> KeyNutrients(full_data.foodNutrients)]
         IN  FormatFoodHits(hits, i + 1,
                 [raised |-> full_data.raised,
                  text |-> IF full_data.raised = None
                           THEN Append(acc.text, line) ELSE acc.text,
                  trace |-> IF lookup
                            THEN Append(acc.trace, [m |-> "get_food_by_id",
                                                    fdc_id |-> metadata.fdc_id,
                                                    raised |-> full_data.raised])
                            ELSE acc.trace,
                  cache |-> cache1],
                 json, lookup_fails)

\* the body of the try block of NutritionLookupTool.execute
NutritionBody(food_query, max_results, cache, json, docs, search_fails, lookup_fails) ==
    LET n == Clamp(max_results, NutritionMaxResults)
        results == search(docs, n, search_fails)
        searched == <<SearchCall(n, results)>>
    IN  IF results.raised # None
        THEN [raised |-> results.raised, text |-> <<>>, trace |-> searched,
              cache |-> cache]
        ELSE IF NoHits(results.hits)
        THEN [raised |-> None,
              text |-> <<[t |-> "No nutritional information found for '{food_query}'. Try a different search term.",
                          query |-> food_query]>>,
              trace |-> searched, cache |-> cache]
        ELSE FormatFoodHits(results.hits, 1,
                 [raised |-> None,
                  text |-> <<[t |-> "Found {len(results)} result(s) for '{query}':",
                              n |-> Len(results.hits), query |-> food_query]>>,
                  trace |-> searched, cache |-> cache],
                 json, lookup_fails)

nutrition_execute(food_query, max_results, cache, json, docs, search_fails, lookup_fails) ==
    TryExcept(NutritionBody(food_query, max_results, cache, json, docs,
                            search_fails, lookup_fails),
              "Error looking up nutrition information: {str(e)}")

(***************************************************************************)
(* DietaryRequirementsTool.execute                                         *)
(***************************************************************************)

DietaryMaxResults == 10
KeysShown == 3

\* str.capitalize() of a gender
Capitalize(gender) ==
    CASE gender = "male" -> "Male" [] gender = "female" -> "Female"
      [] OTHER -> gender

\* _format_nutrient_value
format_nutrient_value(kind, key) ==
    IF kind = "none" THEN [fmt |-> "not specified", unit |-> ""]
    ELSE IF kind = "dict" THEN [fmt |-> "{k}: {v}, ...", unit |-> ""]
    ELSE IF kind = "str" THEN [fmt |-> "{value}", unit |-> ""]
    ELSE IF Len(key) > 1 THEN [fmt |-> "{value} {unit}", unit |-> key[Len(key)]]
    ELSE [fmt |-> "{value}", unit |-> ""]

\* one section of the breakdown: its heading, then "  - <Name>: <value>" for
\* every nutrient of the group; nothing for an empty group
Section(heading, entries) ==
    IF entries = <<>> THEN <<>>
    ELSE <<[t |-> heading]>> \o
         [k \in 1..Len(entries) |->
             [t |-> "  - {nutrient_name}: {formatted_value}",
              name |-> entries[k].key,
              value |-> format_nutrient_value(entries[k].kind, entries[k].key)]]

\* a plausible slip: the search's header put before the breakdown
ExactBreakdownFramed(exact_match, gender, age) ==
    <<[t |-> "Found {len(results)} result(s) for '{query}':", n |-> 1,
       query |-> <<>>],
      [t |-> "Dietary Requirements for {gender}, Age {age} (Age Group: {age_group})",
       gender |-> Capitalize(gender), age |-> age,
       age_group |-> exact_match.age_group]>>

\* the response built from an exact match
ExactBreakdown(exact_match, gender, age) ==
    <<[t |-> "Dietary Requirements for {gender}, Age {age} (Age Group: {age_group})",
       gender |-> Capitalize(gender), age |-> age,
       age_group |-> exact_match.age_group]>>
    \o Section("MINERALS:", exact_match.minerals)
    \o Section("VITAMINS:", exact_match.vitamins)
    \o Section("NUTRITION (Macronutrients):", exact_match.nutrition)

\* list(d.keys())[:3]
FirstKeys(entries) ==
    LET shown == Take(entries, KeysShown)
    IN  [k \in 1..Len(shown) |-> shown[k].key]

\* one pass of the loop over the hits: the line of hit i
DietaryHitLine(metadata, i, full_data) ==
    [t |-> "{i}. {gender}, Age Group: {age_group}", i |-> i,
     gender |-> Capitalize(metadata.gender),
     age_group |-> metadata.age_group,
     key_minerals |-> FirstKeys(full_data.minerals),
     key_vitamins |-> FirstKeys(full_data.vitamins)]

\* the loop over the hits, after `acc`: every pass looks the hit's record up
\* and adds its line; a lookup that raises ends the loop (the cache being
\* loaded by the first lookup, a lookup raises at the first hit or never)
FormatDietaryHits(hits, acc, files) ==
    Let(load_data_cache(acc.cache, files), LAMBDA cache1 :
    Let([i \in 1..Len(hits) |->
            get_requirements_by_key(cache1, hits[i].age_group, hits[i].gender)],
        LAMBDA full_data :
    LET raising == {i \in 1..Len(hits) : full_data[i].raised # None}
        last == IF raising = {} THEN Len(hits)
                ELSE CHOOSE i \in raising : \A j \in raising : i <= j
    IN  [raised |-> IF raising = {} THEN None ELSE full_data[last].raised,
         text |-> IF raising = {}
                  THEN acc.text \o [i \in 1..Len(hits) |->
                                       DietaryHitLine(hits[i], i, full_data[i])]
                  ELSE acc.text,
         trace |-> acc.trace \o [i \in 1..last |-> LookupCall(full_data[i])],
         cache |-> cache1]))

\* a plausible slip: what the query tells is preferred to what was given
ResolveAgeGenderQueryFirst(query, age_arg, gender_arg) ==
    [age |-> IF extract_age_from_query(query) # NoneInt
             THEN extract_age_from_query(query) ELSE age_arg,
     gender |-> IF extract_gender_from_query(query) # None
                THEN extract_gender_from_query(query) ELSE gender_arg]

\* lines 152-155: age and gender as given, else as the query tells them
ResolveAgeGender(query, age_arg, gender_arg) ==
    [age |-> IF age_arg = NoneInt THEN extract_age_from_query(query) ELSE age_arg,
     gender |-> IF gender_arg = None THEN extract_gender_from_query(query)
                ELSE gender_arg]

\* lines 158-161: `if age and gender`, the lookup of the record of the age
\* group and the gender
ExactMatch(age, gender, cache, files) ==
    IF age # NoneInt /\ age # <<0>> /\ gender # None
    THEN Let(load_data_cache(cache, files), LAMBDA cache1 :
         Let(get_requirements_by_key(cache1, get_age_group(age[1]), gender),
             LAMBDA exact_match :
             [exact_match |-> exact_match, cache |-> cache1,
              trace |-> <<LookupCall(exact_match)>>]))
    ELSE [exact_match |-> [raised |-> None, found |-> FALSE, age_group |-> "",
                           gender |-> "", minerals |-> <<>>, vitamins |-> <<>>,
                           nutrition |-> <<>>],
          cache |-> cache, trace |-> <<>>]

\* lines 167-226: the response, from the exact match and the search results
DietaryResponse(query, who, exact, n, results, files) ==
    LET searched == Append(exact.trace, SearchCall(n, results))
    IN  IF results.raised # None
        THEN [raised |-> results.raised, text |-> <<>>, trace |-> searched,
              cache |-> exact.cache]
        ELSE IF exact.exact_match.found
        THEN [raised |-> None,
              text |-> ExactBreakdown(exact.exact_match, who.gender, who.age[1]),
              trace |-> searched, cache |-> exact.cache]
        ELSE IF NoHits(results.hits)
        THEN [raised |-> None,
              text |-> <<[t |-> "No dietary requirements found for '{query}'. Try specifying age and gender (e.g., 'requirements for 30-year-old male').",
                          query |-> query]>>,
              trace |-> searched, cache |-> exact.cache]
        ELSE FormatDietaryHits(results.hits,
                 [raised |-> None,
                  text |-> <<[t |-> "Found {len(results)} result(s) for '{query}':",
                              n |-> Len(results.hits), query |-> query]>>,
                  trace |-> searched, cache |-> exact.cache],
                 files)

\* the body of the try block of DietaryRequirementsTool.execute: the exact
\* lookup, then the search, then the response
DietaryBody(query, age_arg, gender_arg, max_results, cache, files, docs, search_fails) ==
    Let(Clamp(max_results, DietaryMaxResults), LAMBDA n :
    Let(ResolveAgeGender(query, age_arg, gender_arg), LAMBDA who :
    Let(ExactMatch(who.age, who.gender, cache, files), LAMBDA exact :
        IF exact.exact_match.raised # None
        THEN [raised |-> exact.exact_match.raised, text |-> <<>>,
              trace |-> exact.trace, cache |-> exact.cache]
        ELSE Let(search(docs, n, search_fails), LAMBDA results :
                 DietaryResponse(query, who, exact, n, results, files)))))

dietary_execute(query, age_arg, gender_arg, max_results, cache, files, docs, search_fails) ==
    TryExcept(DietaryBody(query, age_arg, gender_arg, max_results, cache, files,
                          docs, search_fails),
              "Error looking up dietary requirements: {str(e)}")

(***************************************************************************)
(* TavilySearchTool.execute                                                *)
(***************************************************************************)

TavilyMaxResults == 10
ContentPreview == 500

\* str.strip(), for the blanks of the model
RECURSIVE LStrip(_)
LStrip(s) == IF s # <<>> /\ Head(s) = " " THEN LStrip(Tail(s)) ELSE s

RECURSIVE RStrip(_)
RStrip(s) ==
    IF s # <<>> /\ s[Len(s)] = " " THEN RStrip(SubSeq(s, 1, Len(s) - 1)) ELSE s

Strip(s) == RStrip(LStrip(s))

\* the lines of one result: "--- Result i ---", Title, URL and, when the
\* content is not empty, the content cut to 500 characters
TavilyResultLines(r, i) ==
    << [t |-> "--- Result {i} ---", i |-> i],
       [t |-> "Title: {title}", i |-> i],
       [t |-> "URL: {url}", i |-> i] >>
    \o (IF r.content_len > 0
        THEN <<[t |-> "Content: {content_preview}", i |-> i,
                shown |-> Min(r.content_len, ContentPreview),
                dots |-> r.content_len > ContentPreview]>>
        ELSE <<>>)

RECURSIVE TavilyLinesFrom(_, _)
TavilyLinesFrom(results, i) ==
    IF i > Len(results) THEN <<>>
    ELSE TavilyResultLines(results[i], i) \o TavilyLinesFrom(results, i + 1)

\* client.search(query, max_results): the service answers with at most
\* max_results of the results it has
TavilyClientSearch(api, max_results) == Take(api.results, max_results)

\* the body of the try block of TavilySearchTool.execute; `api` is the
\* service as the call finds it: failing, or holding results for the query
TavilyBody(query, max_results, api) ==
    IF query = <<>> \/ Strip(query) = <<>>
    THEN [raised |-> None, text |-> <<[t |-> "Error: Query cannot be empty"]>>,
          trace |-> <<>>]
    ELSE LET n == Clamp(max_results, TavilyMaxResults)
             called == <<[m |-> "client.search", query |-> Strip(query),
                          n_results |-> n,
                          raised |-> IF api.fails THEN "RuntimeError" ELSE None,
                          hits |-> IF api.fails THEN -1
                                   ELSE Len(TavilyClientSearch(api, n))]>>
             results == TavilyClientSearch(api, n)
         IN  IF api.fails
             THEN [raised |-> "RuntimeError", text |-> <<>>, trace |-> called]
             ELSE IF results = <<>>
             THEN [raised |-> None,
                   text |-> <<[t |-> "No results found for query: '{query}'. Try rephrasing your search.",
                               query |-> query]>>,
                   trace |-> called]
             ELSE [raised |-> None,
                   text |-> <<[t |-> "Found {len(results)} result(s) for '{query}':",
                               n |-> Len(results), query |-> query]>>
                            \o TavilyLinesFrom(results, 1),
                   trace |-> called]

tavily_execute(query, max_results, api) ==
    TryExcept(TavilyBody(query, max_results, api),
              "Error: Tavily search failed: {str(e)}")

(***************************************************************************)
(* The stores as deployed, and the tools' inputs                           *)
(***************************************************************************)

\* the largest dietary and food collections
MaxDietaryDocs == 11
MaxFoodDocs == 21
\* the most results the web search service holds
MaxWebResults == 11

AllPairs == {<<AgeLabels[k], g>> : k \in 1..Len(AgeLabels), g \in Genders}

TableSets ==
    { [minerals |-> SourceFile("ok", AllPairs),
       vitamins |-> SourceFile("ok", AllPairs),
       nutrition |-> SourceFile("ok", AllPairs)],
      [minerals |-> SourceFile("missing", {}),
       vitamins |-> SourceFile("ok", {<<"19-64", "male">>, <<"4-6", "female">>}),
       nutrition |-> SourceFile("not json", {})],
      [minerals |-> SourceFile("list", {}),
       vitamins |-> SourceFile("ok", AllPairs),
       nutrition |-> SourceFile("ok", AllPairs)],
      [minerals |-> SourceFile("missing", {}),
       vitamins |-> SourceFile("missing", {}),
       nutrition |-> SourceFile("missing", {})] }

DefaultTables ==
    [minerals |-> SourceFile("ok", AllPairs),
     vitamins |-> SourceFile("ok", AllPairs),
     nutrition |-> SourceFile("ok", AllPairs)]

\* the metadata of the dietary collection's documents, as a query ranks them
DietaryRanking ==
    [i \in 1..MaxDietaryDocs |->
        [age_group |-> AgeLabels[((i - 1) % Len(AgeLabels)) + 1],
         gender |-> IF i % 2 = 1 THEN "female" ELSE "male"]]

\* the metadata of the food collection's documents, as a query ranks them;
\* the third document was built from an item without fdcId
FoodRanking ==
    [i \in 1..MaxFoodDocs |->
        [fdc_id |-> IF i = 3 THEN 0 ELSE i, description |-> i,
         category |-> IF i % 2 = 1 THEN "Fruits" ELSE ""]]

DocCounts(max) == {0, 2, max}

FoodFiles == {[file |-> "ok", foods |-> {1, 2}], [file |-> "missing", foods |-> {}]}

DefaultFoodFile == [file |-> "ok", foods |-> {1, 2}]

\* " x "
PaddedQuery == <<" ", "x", " ">>

\* "Girl age 5"
GirlQuery == <<"G", "i", "r", "l", " ", "a", "g", "e", " ", "5">>

DietaryQueries == {ExampleWoman, ExampleMale, GirlQuery, <<"x">>}
AgeArgs == {NoneInt, <<0>>, <<-1>>, <<18>>, <<23>>, <<80>>}
GenderArgs == {None, "male", "female"}
MaxResultsArgs == {-1, 0, 1, 5, 10, 11, 20, 21, 50}
FoodQueries == {<<"x">>, ExampleMale}
WebQueries == {<<>>, <<" ">>, <<"x">>, PaddedQuery}

\* the results the web search service holds for a query: content of 0, 500
\* and 501 characters in turn
WebResults(k) == [i \in 1..k |-> [content_len |-> (i % 3) * 250 + (i % 3) \div 2]]

(***************************************************************************)
(* The tools' operations                                                   *)
(***************************************************************************)

ToolsInit ==
    /\ call = Idle
    /\ result = Idle
    /\ trace = <<>>
    /\ data_cache = EmptyCache
    /\ food_data_cache = EmptyFoodCache
    /\ elevenlabs_client = None
    /\ agent = None
    /\ memory = <<>>
    /\ file_reads = NoReads
    /\ tavily_client = "TavilyClient"
    /\ \/ /\ tables \in TableSets
          /\ dietary_docs \in {Take(DietaryRanking, k) : k \in DocCounts(MaxDietaryDocs)}
          /\ food_json = DefaultFoodFile
          /\ food_docs = Take(FoodRanking, 2)
       \/ /\ tables = DefaultTables
          /\ dietary_docs = Take(DietaryRanking, 2)
          /\ food_json \in FoodFiles
          /\ food_docs \in {Take(FoodRanking, k) : k \in DocCounts(MaxFoodDocs)}

\* NutritionLookupTool.execute with its arguments drawn from the given sets
NutritionExecute(queries, limits) ==
    /\ call = Idle
    /\ \E food_query \in queries, max_results \in limits,
          search_fails \in BOOLEAN, lookup_fails \in BOOLEAN :
        \E out \in {nutrition_execute(food_query, max_results, food_data_cache,
                                     food_json, food_docs, search_fails, lookup_fails)} :
            /\ call' = [fn |-> "NutritionLookupTool.execute", query |-> food_query,
                        max_results |-> max_results, search_fails |-> search_fails,
                        lookup_fails |-> lookup_fails]
            /\ result' = [raised |-> out.raised, text |-> out.text]
            /\ trace' = out.trace
            /\ food_data_cache' = out.cache
            /\ file_reads' = IF out.cache.loaded
                             THEN Bump(file_reads, FoodFileOpened(food_data_cache, food_json))
                             ELSE file_reads
    /\ UNCHANGED <<tables, data_cache, dietary_docs, food_json, food_docs, webVars>>

NutritionExecuteCall == NutritionExecute(FoodQueries, MaxResultsArgs)

\* DietaryRequirementsTool.execute with its arguments drawn from the given sets
DietaryExecute(queries, ages, genders, limits) ==
    /\ call = Idle
    /\ \E query \in queries, age \in ages, gender \in genders,
          max_results \in limits, search_fails \in BOOLEAN :
        \E out \in {dietary_execute(query, age, gender, max_results, data_cache,
                                   tables, dietary_docs, search_fails)} :
            /\ call' = [fn |-> "DietaryRequirementsTool.execute", query |-> query,
                        age |-> age, gender |-> gender,
                        max_results |-> max_results, search_fails |-> search_fails]
            /\ result' = [raised |-> out.raised, text |-> out.text]
            /\ trace' = out.trace
            /\ data_cache' = out.cache
            /\ file_reads' = IF out.cache.loaded
                             THEN Bump(file_reads, TablesOpened(data_cache, tables))
                             ELSE file_reads
    /\ UNCHANGED <<tables, dietary_docs, food_json, food_data_cache, food_docs, webVars>>

DietaryExecuteCall ==
    DietaryExecute(DietaryQueries, AgeArgs, GenderArgs, MaxResultsArgs)

TavilyExecuteCall ==
    /\ call = Idle
    /\ tavily_client # None
    /\ \E query \in WebQueries, max_results \in MaxResultsArgs,
          fails \in BOOLEAN, k \in DocCounts(MaxWebResults) :
        \E out \in {tavily_execute(query, max_results,
                                  [fails |-> fails, results |-> WebResults(k)])} :
            /\ call' = [fn |-> "TavilySearchTool.execute", query |-> query,
                        max_results |-> max_results, search_fails |-> fails,
                        held |-> k]
            /\ result' = [raised |-> out.raised, text |-> out.text]
            /\ trace' = out.trace
    /\ UNCHANGED <<storeVars, webVars>>

ToolsNext ==
    \/ NutritionExecuteCall
    \/ DietaryExecuteCall
    \/ TavilyExecuteCall
    \/ Return

SpecTools == ToolsInit /\ [][ToolsNext]_vars

(***************************************************************************)
(* The dietary lookup: exact match and similarity search                   *)
(***************************************************************************)

NutritionCalled == call.fn = "NutritionLookupTool.execute"
DietaryCalled == call.fn = "DietaryRequirementsTool.execute"
TavilyCalled == call.fn = "TavilySearchTool.execute"

\* the exact-match lookup of the call found a record
ExactMatchFound ==
    /\ trace # <<>>
    /\ trace[1].m = "get_requirements_by_key"
    /\ trace[1].found

SearchInvoked == \E i \in 1..Len(trace) : trace[i].m = "search"

HasLine(template) == \E i \in 1..Len(result.text) : result.text[i].t = template

ExactHeader == "Dietary Requirements for {gender}, Age {age} (Age Group: {age_group})"
FoundHeader == "Found {len(results)} result(s) for '{query}':"

\* C2: in DietaryRequirementsTool.execute, whenever the exact-match lookup
\* finds a record, the similarity search is not invoked during that call.
C2_SearchSkippedOnExactMatch ==
    (DietaryCalled /\ ExactMatchFound) => ~SearchInvoked

\* C3: whenever the exact-match lookup of a call finds the record of the
\* age's bucket and the gender, the returned text is the exact-match
\* breakdown of that record, whether or not the similarity search succeeds.
C3_ExactMatchAlwaysWins ==
    (DietaryCalled /\ ExactMatchFound) =>
        LET who == ResolveAgeGender(call.query, call.age, call.gender)
            record == get_requirements_by_key(data_cache, trace[1].age_group,
                                              trace[1].gender)
        IN  /\ result.raised = None
            /\ result.text = ExactBreakdown(record, who.gender, who.age[1])

\* the labels of the ranges of NineRanges that contain age
BucketLabels(age) == {NineRanges[k][3] : k \in RangesContaining(age)}

\* the Found header is that of a response listing the hits of the search,
\* given when no exact match was found
FoundHeaderOnlyInFallback ==
    HasLine(FoundHeader) =>
        /\ ~ExactMatchFound
        /\ \E i \in 1..Len(trace) :
              /\ trace[i].m = "search"
              /\ trace[i].hits >= 1
              /\ result.text[1].t = FoundHeader
              /\ result.text[1].n = trace[i].hits

\* C4 as stated: every exact-match response names the label of the bucket
\* that contains the requested age and has no "Found N result(s)" header;
\* that header appears only in responses of the similarity-search fallback.
C4_AsStated ==
    DietaryCalled =>
        /\ (result.text[1].t = ExactHeader =>
               /\ result.text[1].age_group \in BucketLabels(result.text[1].age)
               /\ ~HasLine(FoundHeader))
        /\ FoundHeaderOnlyInFallback

\* C4: an exact-match response names the label of the bucket that contains
\* the requested age when the age is at least 1, and "75+" when the age is
\* below 1 (no bucket contains such an age); it never has the "Found N
\* result(s)" header, which appears only in responses of the
\* similarity-search fallback.
C4_ExactResponseNamesBucket ==
    DietaryCalled =>
        /\ (result.text[1].t = ExactHeader =>
               LET who == ResolveAgeGender(call.query, call.age, call.gender)
               IN  /\ ExactMatchFound
                   /\ result.text[1].age = who.age[1]
                   /\ IF who.age[1] >= 1
                      THEN BucketLabels(who.age[1]) = {result.text[1].age_group}
                      ELSE result.text[1].age_group = "75+"
                   /\ ~HasLine(FoundHeader))
        /\ FoundHeaderOnlyInFallback

\* age 18, exact match: the label is "15-18"
C4_Witness ==
    /\ DietaryCalled
    /\ call.age = <<18>>
    /\ result.text[1].t = ExactHeader
    /\ result.text[1].age_group = "15-18"

(***************************************************************************)
(* The tools' messages, failures and limits                                *)
(***************************************************************************)

NoFoodMessage ==
    "No nutritional information found for '{food_query}'. Try a different search term."

\* C7: when the food index search returns no hits, NutritionLookupTool.execute
\* returns exactly the no-information message for the query and does not
\* raise; the message is returned only when the search returned no hits.
C7_NoHitsMessage ==
    NutritionCalled =>
        /\ trace[1].m = "search"
        /\ trace[1].hits = 0 =>
              /\ result.raised = None
              /\ result.text = <<[t |-> NoFoodMessage, query |-> call.query]>>
        /\ HasLine(NoFoodMessage) => trace[1].hits = 0

C7_Witness ==
    /\ NutritionCalled
    /\ food_docs = <<>>
    /\ trace[1].hits = 0
    /\ result.text = <<[t |-> NoFoodMessage, query |-> call.query]>>

ErrorTexts ==
    {"Error looking up nutrition information: {str(e)}",
     "Error looking up dietary requirements: {str(e)}",
     "Error: Tavily search failed: {str(e)}"}

\* a search, an embedding or a record lookup of the call failed
CollaboratorFailed == \E i \in 1..Len(trace) : trace[i].raised # None

\* C8: NutritionLookupTool.execute, DietaryRequirementsTool.execute and
\* TavilySearchTool.execute complete by returning a string, an error text
\* when the store, the embedding or the record lookup fails; no exception
\* propagates to the caller.
C8_ToolsNeverRaise ==
    (NutritionCalled \/ DietaryCalled \/ TavilyCalled) =>
        /\ result.raised = None
        /\ result.text # <<>>
        /\ CollaboratorFailed =>
              /\ Len(result.text) = 1
              /\ result.text[1].t \in ErrorTexts

\* the record lookup of a hit raises inside the dietary tool
C8_Witness ==
    /\ DietaryCalled
    /\ trace[Len(trace)].m = "get_requirements_by_key"
    /\ trace[Len(trace)].raised = "AttributeError"
    /\ result.raised = None
    /\ result.text[1].t = "Error looking up dietary requirements: {str(e)}"

\* min(max(1, max_results), limit), spelled out
Clamped(max_results, limit) ==
    IF max_results < 1 THEN 1
    ELSE IF max_results > limit THEN limit ELSE max_results

Entries(template) ==
    Cardinality({i \in 1..Len(result.text) : result.text[i].t = template})

\* C9: the food lookup passes min(max(1, max_results), 20) to the index and
\* the dietary lookup min(max(1, max_results), 10); a call behaves as the
\* call with the clamped value does; the response never has more result
\* entries than the clamped value.
C9_MaxResultsClamped ==
    /\ NutritionCalled =>
          LET n == Clamped(call.max_results, 20)
              same == nutrition_execute(call.query, n, food_data_cache, food_json,
                                        food_docs, call.search_fails,
                                        call.lookup_fails)
          IN  /\ \A i \in 1..Len(trace) :
                    trace[i].m = "search" => trace[i].n_results = n
              /\ SearchInvoked
              /\ result.text = same.text /\ trace = same.trace
              /\ Entries("food entry") <= n
    /\ DietaryCalled =>
          LET n == Clamped(call.max_results, 10)
              same == dietary_execute(call.query, call.age, call.gender, n,
                                      data_cache, tables, dietary_docs,
                                      call.search_fails)
          IN  /\ \A i \in 1..Len(trace) :
                    trace[i].m = "search" => trace[i].n_results = n
              /\ result.text = same.text /\ trace = same.trace
              /\ Entries("{i}. {gender}, Age Group: {age_group}") <= n

\* max_results = 50 on an index of more than 20 foods: 20 entries
C9_Witness ==
    /\ NutritionCalled
    /\ call.max_results = 50
    /\ Len(food_docs) > 20
    /\ Entries("food entry") = 20

(***************************************************************************)
(* web/api.py: startup and the text-to-speech endpoint                     *)
(***************************************************************************)

\* the longest text the endpoint accepts
TextLimit == 5000

\* how far beyond TextLimit the texts of the requests go
TextBeyond == 2

\* a text as its leading blanks, its stripped length and its trailing blanks
TextOf(lead, body, trail) == [lead |-> lead, body |-> body, trail |-> trail]

\* len(request.text)
TextLen(text) == text.lead + text.body + text.trail

\* len(request.text.strip())
StrippedLen(text) == text.body

\* not request.text or not request.text.strip()
IsBlank(text) == TextLen(text) = 0 \/ StrippedLen(text) = 0

\* a plausible slip: `>=` in place of `>`
TooLongInclusive(text) == TextLen(text) >= TextLimit

\* len(request.text) > 5000
TooLong(text) == TextLen(text) > TextLimit

\* media_type_map.get(actual_output_format, "audio/mpeg")
MediaType(output_format) ==
    IF output_format \in {"pcm_16000", "pcm_22050", "pcm_24000", "pcm_44100"}
    THEN "audio/pcm" ELSE "audio/mpeg"

\* value or default
OrDefault(value, default) == IF value = None \/ value = "" THEN default ELSE value

HTTPException(status_code, detail) ==
    [status |-> status_code, detail |-> detail, media_type |-> None]

\* text_to_speech: the response, and the calls made to the external service
text_to_speech(client, request, convert_fails) ==
    IF client = None
    THEN [response |-> HTTPException(503, "ElevenLabs client not initialized"),
          trace |-> <<>>]
    ELSE IF IsBlank(request.text)
    THEN [response |-> HTTPException(400, "Text cannot be empty"), trace |-> <<>>]
    ELSE IF TooLong(request.text)
    THEN [response |-> HTTPException(400, "Text too long (max 5000 characters)"),
          trace |-> <<>>]
    ELSE LET actual_output_format == OrDefault(request.output_format, "mp3_44100_128")
             convert == [m |-> "text_to_speech.convert",
                         text_len |-> StrippedLen(request.text),
                         voice_id |-> OrDefault(request.voice_id, "JBFqnCBsd6RMkjVDRZzb"),
                         model_id |-> OrDefault(request.model_id, "eleven_turbo_v2"),
                         output_format |-> actual_output_format,
                         raised |-> IF convert_fails THEN "RuntimeError" ELSE None]
         IN  IF convert_fails
             THEN [response |-> HTTPException(500, "TTS conversion failed: {str(e)}"),
                   trace |-> <<convert>>]
             ELSE [response |-> [status |-> 200, detail |-> "",
                                 media_type |-> MediaType(actual_output_format)],
                   trace |-> <<convert>>]

TextBodies == {0, 1} \cup ((TextLimit - 2)..(TextLimit + TextBeyond))
OutputFormats == {None, "mp3_22050_32", "pcm_16000", "wav"}

WebInit ==
    /\ call = [fn |-> "startup"]
    /\ result = Idle
    /\ trace = <<>>
    /\ tables = DefaultTables
    /\ data_cache = EmptyCache
    /\ dietary_docs = Take(DietaryRanking, 2)
    /\ food_json = DefaultFoodFile
    /\ food_data_cache = EmptyFoodCache
    /\ food_docs = Take(FoodRanking, 2)
    /\ agent = None
    /\ memory = <<>>
    /\ file_reads = NoReads
    /\ tavily_client = None
    /\ elevenlabs_client = None

\* the calls the startup makes before the agent is built
StartupCalls(agent_fails) ==
    <<[m |-> "AppConfig.validate", raised |-> None],
      [m |-> "NutritionAdvisorAgent",
       raised |-> IF agent_fails THEN "RuntimeError" ELSE None]>>

\* a plausible slip: the ElevenLabs client is built outside the inner try, so
\* its failure stops the startup
startup_strict(agent_fails, api_key, client_fails) ==
    IF agent_fails \/ (api_key \notin {None, ""} /\ client_fails)
    THEN [raised |-> "RuntimeError", agent |-> None, elevenlabs_client |-> None,
          trace |-> StartupCalls(agent_fails)]
    ELSE [raised |-> None, agent |-> "NutritionAdvisorAgent",
          elevenlabs_client |-> IF api_key \notin {None, ""} THEN "ElevenLabs" ELSE None,
          trace |-> StartupCalls(FALSE)
                      \o (IF api_key \notin {None, ""}
                          THEN <<[m |-> "ElevenLabs", raised |-> None]>> ELSE <<>>)]

\* the startup half of lifespan: AppConfig.validate (which returns True), the
\* agent, then inside a try of its own the ElevenLabs client when a key is set
startup(agent_fails, api_key, client_fails) ==
    IF agent_fails
    THEN [raised |-> "RuntimeError", agent |-> None, elevenlabs_client |-> None,
          trace |-> StartupCalls(TRUE)]
    ELSE [raised |-> None, agent |-> "NutritionAdvisorAgent",
          elevenlabs_client |-> IF api_key \notin {None, ""} /\ ~client_fails
                                THEN "ElevenLabs" ELSE None,
          trace |-> StartupCalls(FALSE)
                      \o (IF api_key \notin {None, ""}
                          THEN <<[m |-> "ElevenLabs",
                                  raised |-> IF client_fails THEN "RuntimeError"
                                             ELSE None]>>
                          ELSE <<>>)]

\* lifespan: the agent is built, then the ElevenLabs client when a key is set;
\* a failure of the first stops the startup, a failure of the second does not
lifespan ==
    /\ call.fn = "startup"
    /\ \E agent_fails \in BOOLEAN, api_key \in {None, "", "key"},
          client_fails \in BOOLEAN :
       \E out \in {startup(agent_fails, api_key, client_fails)} :
          /\ call' = IF out.raised # None THEN [fn |-> "startup failed"] ELSE Idle
          /\ agent' = out.agent
          /\ elevenlabs_client' = out.elevenlabs_client
          /\ trace' = out.trace
    /\ UNCHANGED <<result, storeVars, memory, tavily_client>>

TextToSpeechCall ==
    /\ call = Idle
    /\ \E lead \in {0, 1}, body \in TextBodies, trail \in {0, 1},
          voice_id \in {None, "voice"}, model_id \in {None, "model"},
          output_format \in OutputFormats, convert_fails \in BOOLEAN :
        \E request \in {[text |-> TextOf(lead, body, trail), voice_id |-> voice_id,
                         model_id |-> model_id, output_format |-> output_format]} :
        \E out \in {text_to_speech(elevenlabs_client, request, convert_fails)} :
            /\ call' = [fn |-> "text_to_speech", request |-> request,
                        convert_fails |-> convert_fails]
            /\ result' = out.response
            /\ trace' = out.trace
    /\ UNCHANGED <<storeVars, webVars>>

\* GET /api/health
HealthCheckCall ==
    /\ call = Idle
    /\ call' = [fn |-> "health_check"]
    /\ result' = [status |-> 200, detail |-> "healthy",
                  agent_initialized |-> agent # None]
    /\ trace' = <<>>
    /\ UNCHANGED <<storeVars, webVars>>

\* the most messages the conversation state holds
MaxMemory == 3

\* message.session_id is None or message.session_id == "new"
StartsSession(session_id) == session_id = None \/ session_id = "new"

\* message.session_id or "session_1"
SessionIdOf(session_id) ==
    IF session_id = None \/ session_id = "" THEN "session_1" ELSE session_id

\* chat: the response, the calls made to the agent and its state afterwards;
\* a run that fails may or may not have recorded the message
chat(the_agent, state, message, run_fails, recorded) ==
    IF the_agent = None
    THEN [response |-> [status |-> 503, detail |-> "Agent not initialized",
                        session_id |-> ""],
          trace |-> <<>>, memory |-> state]
    ELSE LET cleared == IF StartsSession(message.session_id) THEN <<>> ELSE state
             calls == (IF StartsSession(message.session_id)
                       THEN <<[m |-> "agent.clear", raised |-> None]>> ELSE <<>>)
                      \o <<[m |-> "agent.run",
                            raised |-> IF run_fails THEN "RuntimeError" ELSE None]>>
         IN  IF run_fails
             THEN [response |-> [status |-> 500, detail |-> "{str(e)}",
                                 session_id |-> ""],
                   trace |-> calls,
                   memory |-> IF recorded THEN Append(cleared, message.message)
                              ELSE cleared]
             ELSE [response |-> [status |-> 200, detail |-> "",
                                 session_id |-> SessionIdOf(message.session_id)],
                   trace |-> calls,
                   memory |-> Append(cleared, message.message)]

SessionIds == {None, "", "new", "session_1", "abc"}

ChatCall ==
    /\ call = Idle
    /\ \E text \in {"hello", "and then?"}, session_id \in SessionIds,
          run_fails \in BOOLEAN, recorded \in BOOLEAN :
        /\ StartsSession(session_id) \/ Len(memory) < MaxMemory
        /\ run_fails \/ recorded
        /\ \E out \in {chat(agent, memory,
                            [message |-> text, session_id |-> session_id],
                            run_fails, recorded)} :
            /\ call' = [fn |-> "chat", session_id |-> session_id,
                        message |-> text, run_fails |-> run_fails]
            /\ result' = out.response
            /\ trace' = out.trace
            /\ memory' = out.memory
    /\ UNCHANGED <<storeVars, elevenlabs_client, agent, tavily_client>>

WebNext ==
    \/ lifespan
    \/ ChatCall
    \/ TextToSpeechCall
    \/ HealthCheckCall
    \/ Return

SpecWeb == WebInit /\ [][WebNext]_vars

TtsCalled == call.fn = "text_to_speech"

\* C10 as stated: 400 to every request whose text is empty or blank, 400 to
\* every request whose text is longer than 5000 characters, 503 to a request
\* with valid text when no client is configured; the external service is
\* called in none of these cases.
C10_AsStated ==
    TtsCalled =>
        LET text == call.request.text
        IN  /\ IsBlank(text) => result.status = 400 /\ trace = <<>>
            /\ TextLen(text) > 5000 => result.status = 400 /\ trace = <<>>
            /\ (~IsBlank(text) /\ TextLen(text) <= 5000 /\ elevenlabs_client = None)
                  => result.status = 503 /\ trace = <<>>

\* C10: with no client configured, the endpoint answers 503 to every
\* request, whatever its text; with a client configured, it answers 400 to
\* every request whose text is empty or blank and 400 to every request whose
\* text is longer than 5000 characters, and hands every other text (one of
\* 5000 characters included) to the external service; the external service
\* is called in none of the 503 and 400 cases.
C10_TtsRejections ==
    TtsCalled =>
        LET text == call.request.text
        IN  /\ elevenlabs_client = None => result.status = 503 /\ trace = <<>>
            /\ (elevenlabs_client # None /\ IsBlank(text))
                  => result.status = 400 /\ trace = <<>>
            /\ (elevenlabs_client # None /\ TextLen(text) > 5000)
                  => result.status = 400 /\ trace = <<>>
            /\ (elevenlabs_client # None /\ ~IsBlank(text) /\ TextLen(text) <= 5000)
                  => /\ result.status \in {200, 500}
                     /\ Len(trace) = 1
                     /\ trace[1].m = "text_to_speech.convert"

\* a text of 5000 characters is handed to the service by a configured
\* endpoint
C10_Witness ==
    /\ TtsCalled
    /\ elevenlabs_client # None
    /\ TextLen(call.request.text) = 5000
    /\ result.status = 200
    /\ Len(trace) = 1

(***************************************************************************)
(* The collections: add_documents, get_collection_count and the setup      *)
(* scripts                                                                 *)
(***************************************************************************)

Stores == {"usda_nutrition", "dietary_requirements"}

\* the id of a document: str(fdc_id), or dietary_{age_group}_{gender}
DocId(store, metadata) ==
    IF store = "usda_nutrition"
    THEN [fdc_id |-> metadata.fdc_id, age_group |-> "", gender |-> ""]
    ELSE [fdc_id |-> 0, age_group |-> metadata.age_group,
          gender |-> metadata.gender]

IdsOf(store, docs) == {DocId(store, docs[i]) : i \in 1..Len(docs)}

\* the documents of a sequence whose id is not in `ids`, in order
RECURSIVE Unknown(_, _, _)
Unknown(store, documents, ids) ==
    IF documents = <<>> THEN <<>>
    ELSE (IF DocId(store, Head(documents)) \in ids THEN <<>>
          ELSE <<Head(documents)>>)
         \o Unknown(store, Tail(documents), ids)

\* collection.add: new ids are stored; an id the collection already holds
\* is, with the build of the engine, either left as it is or rejected
collection_add(store, docs, documents, existing_ids) ==
    IF IdsOf(store, documents) \cap IdsOf(store, docs) # {}
          /\ existing_ids = "rejected"
    THEN [raised |-> "IDAlreadyExistsError", docs |-> docs]
    ELSE [raised |-> None,
          docs |-> docs \o Unknown(store, documents, IdsOf(store, docs))]

\* add_documents: the embeddings are computed, then the documents are added
add_documents(store, docs, documents, embed_fails, existing_ids) ==
    IF embed_fails THEN [raised |-> "RuntimeError", docs |-> docs]
    ELSE collection_add(store, docs, documents, existing_ids)

\* get_collection_count
get_collection_count(docs) == Len(docs)

\* the collection of a store
CollectionOf(store) ==
    IF store = "usda_nutrition" THEN food_docs ELSE dietary_docs

\* the most documents a batch holds
MaxBatch == 3

\* the batches of documents handed to add_documents: the first documents,
\* or the last ones
Batches(store) ==
    LET ranking == IF store = "usda_nutrition" THEN FoodRanking ELSE DietaryRanking
    IN  {SubSeq(ranking, a, b) : a \in {1, MaxBatch}, b \in 1..MaxBatch} \ {<<>>}

\* process_all_foods, process_all_dietary_data: the documents of the source
\* files
SourceDocuments(store) ==
    Take(IF store = "usda_nutrition" THEN FoodRanking ELSE DietaryRanking, MaxBatch)

IndexInit ==
    /\ call = Idle
    /\ result = Idle
    /\ trace = <<>>
    /\ tables = DefaultTables
    /\ data_cache = EmptyCache
    /\ dietary_docs = <<>>
    /\ food_json = DefaultFoodFile
    /\ food_data_cache = EmptyFoodCache
    /\ food_docs = <<>>
    /\ agent = None
    /\ memory = <<>>
    /\ file_reads = NoReads
    /\ tavily_client = None
    /\ elevenlabs_client = None

AddDocumentsCall ==
    /\ call = Idle
    /\ \E store \in Stores, embed_fails \in BOOLEAN,
          existing_ids \in {"kept", "rejected"} :
       \E documents \in Batches(store) :
       \E out \in {add_documents(store, CollectionOf(store), documents,
                                 embed_fails, existing_ids)} :
          /\ call' = [fn |-> "add_documents", store |-> store,
                      ids |-> IdsOf(store, documents),
                      embed_fails |-> embed_fails, reindex |-> FALSE,
                      response |-> ""]
          /\ result' = [raised |-> out.raised, value |-> 0]
          /\ trace' = <<>>
          /\ IF store = "usda_nutrition"
             THEN food_docs' = out.docs /\ UNCHANGED dietary_docs
             ELSE dietary_docs' = out.docs /\ UNCHANGED food_docs
    /\ UNCHANGED <<tables, data_cache, food_json, food_data_cache, file_reads, webVars>>

GetCollectionCountCall ==
    /\ call = Idle
    /\ \E store \in Stores :
          /\ call' = [fn |-> "get_collection_count", store |-> store, ids |-> {},
                      embed_fails |-> FALSE, reindex |-> FALSE, response |-> ""]
          /\ result' = [raised |-> None,
                        value |-> get_collection_count(CollectionOf(store))]
    /\ trace' = <<>>
    /\ UNCHANGED <<storeVars, webVars>>

IndexNext ==
    \/ AddDocumentsCall
    \/ GetCollectionCountCall
    \/ Return

SpecIndex == IndexInit /\ [][IndexNext]_vars

\* add_documents is called, without a failure of the embedding, with
\* documents whose ids are exactly those the collection holds
Reingest(store) ==
    /\ call = Idle
    /\ call'.fn = "add_documents"
    /\ call'.store = store
    /\ ~call'.embed_fails
    /\ CollectionOf(store) # <<>>
    /\ call'.ids = IdsOf(store, CollectionOf(store))

ExactLookupAttempted ==
    /\ trace # <<>>
    /\ trace[1].m = "get_requirements_by_key"

\* the similarity search of the call raised
SearchFailed == \E i \in 1..Len(trace) : trace[i].m = "search" /\ trace[i].raised # None

\* C12: an age or a gender given to the dietary lookup is the one it uses,
\* whatever the query tells; a field that was not given is extracted from
\* the query, each field on its own.
C12_ExplicitFieldsKept ==
    DietaryCalled =>
        /\ ExactLookupAttempted =>
              /\ trace[1].age_group =
                    get_age_group(IF call.age # NoneInt THEN call.age[1]
                                  ELSE extract_age_from_query(call.query)[1])
              /\ trace[1].gender =
                    IF call.gender # None THEN call.gender
                    ELSE extract_gender_from_query(call.query)
        /\ (ExactLookupAttempted /\ trace[1].found /\ ~SearchFailed) =>
              /\ result.text[1].t = ExactHeader
              /\ call.age # NoneInt => result.text[1].age = call.age[1]
              /\ call.gender # None =>
                    result.text[1].gender = Capitalize(call.gender)

\* age 23 given with the query "Girl age 5": the lookup is for 19-64, female
C12_Witness ==
    /\ DietaryCalled
    /\ call.query = GirlQuery
    /\ call.age = <<23>>
    /\ call.gender = None
    /\ ExactLookupAttempted
    /\ trace[1].age_group = "19-64"
    /\ trace[1].gender = "female"

\* the age and the gender of the call after resolution: as given, else as
\* the query tells them
KnownAge ==
    IF call.age # NoneInt THEN call.age ELSE extract_age_from_query(call.query)

KnownGender ==
    IF call.gender # None THEN call.gender
    ELSE extract_gender_from_query(call.query)

\* C13: in the dietary lookup, whenever both age and gender are known after
\* resolution, the exact lookup get_requirements_by_key(get_age_group(age),
\* gender) is attempted; it is not attempted when either is unknown.
C13_LookupWhenBothKnown ==
    DietaryCalled =>
        /\ (KnownAge # NoneInt /\ KnownGender # None) =>
              /\ ExactLookupAttempted
              /\ trace[1].age_group = get_age_group(KnownAge[1])
              /\ trace[1].gender = KnownGender
        /\ (KnownAge = NoneInt \/ KnownGender = None) => ~ExactLookupAttempted

NoDietaryMessage ==
    "No dietary requirements found for '{query}'. Try specifying age and gender (e.g., 'requirements for 30-year-old male')."

\* the similarity search of the call returned no hit
SearchReturnedNothing ==
    \E i \in 1..Len(trace) : trace[i].m = "search" /\ trace[i].hits = 0

\* C14: the dietary lookup returns the "No dietary requirements found"
\* message, for the query of the call, exactly when the exact lookup gave no
\* record and the similarity search returned no hits; never when an exact
\* match was found or the search returned a hit.
C14_NotFoundMessage ==
    DietaryCalled =>
        /\ (~ExactMatchFound /\ SearchReturnedNothing) =>
              /\ result.raised = None
              /\ result.text = <<[t |-> NoDietaryMessage, query |-> call.query]>>
        /\ HasLine(NoDietaryMessage) =>
              /\ ~ExactMatchFound
              /\ SearchReturnedNothing
              /\ \A i \in 1..Len(trace) : trace[i].m = "search" => trace[i].hits = 0

\* both known, no record for the pair, an empty collection: the message
C14_Witness ==
    /\ DietaryCalled
    /\ ExactLookupAttempted
    /\ ~trace[1].found
    /\ dietary_docs = <<>>
    /\ result.text = <<[t |-> NoDietaryMessage, query |-> call.query]>>

\* C15: the chat endpoint clears the agent's conversation state before
\* running the message exactly when the request has no session_id or the
\* session_id "new"; for any other session_id the state of the earlier
\* requests is kept; the response echoes the session_id of the request when
\* one was supplied and is "session_1" otherwise.
C15_ChatSessions ==
    [][call'.fn = "chat" =>
          LET session_id == call'.session_id
              fresh == session_id = None \/ session_id = "new"
          IN  /\ fresh <=> (trace'[1].m = "agent.clear")
              /\ trace'[Len(trace')].m = "agent.run"
              /\ fresh => memory' \in {<<>>, <<call'.message>>}
              /\ ~fresh => memory' \in {memory, Append(memory, call'.message)}
              /\ result'.status = 200 =>
                    result'.session_id =
                        IF session_id # None THEN session_id ELSE "session_1"]_vars

(***************************************************************************)
(* The web-search tools and their credentials                              *)
(***************************************************************************)

\* a key as a caller or the environment gives it: unset, empty, or set
Keys == {None, "", "key"}

Falsy(key) == key = None \/ key = ""

\* AppConfig.TAVILY_API_KEY: class AppConfig defines no such attribute, so
\* reading it raises AttributeError
TAVILY_API_KEY == [raised |-> "AttributeError", value |-> None]

\* TavilySearchTool.__init__: api_key or AppConfig.TAVILY_API_KEY
TavilySearchTool_init(api_key) ==
    IF ~Falsy(api_key)
    THEN [raised |-> None, client |-> "TavilyClient"]
    ELSE IF TAVILY_API_KEY.raised # None
    THEN [raised |-> TAVILY_API_KEY.raised, client |-> None]
    ELSE IF Falsy(TAVILY_API_KEY.value)
    THEN [raised |-> "ValueError", client |-> None]
    ELSE [raised |-> None, client |-> "TavilyClient"]

\* WebSearchTool.__init__: the pydantic fields only, no credential is read
WebSearchTool_init == [raised |-> None]

\* num of the request's params
WebSearchNum == 3

\* the items of the search service's answer: -1 for an answer with no
\* "items" key
WebItems == {-1, 0, 1, WebSearchNum}

\* results.append(f"Title: ...") and "\n---\n".join(results)
WebSearchLines(k) ==
    [i \in 1..(2 * k - 1) |->
        IF i % 2 = 1
        THEN [t |-> "Title: {title}\nSummary: {snippet}\nLink: {link}\n",
              i |-> (i + 1) \div 2]
        ELSE [t |-> "---", i |-> 0]]

\* WebSearchTool.execute
web_search_execute(query, api_key, cse_id, get_fails, items) ==
    IF Falsy(api_key) \/ Falsy(cse_id)
    THEN [raised |-> None,
          text |-> <<[t |-> "Error: Google Search API key or Engine ID not configured."]>>,
          trace |-> <<>>]
    ELSE LET called == <<[m |-> "requests.get", query |-> query,
                          n_results |-> WebSearchNum,
                          raised |-> IF get_fails THEN "RequestException" ELSE None,
                          hits |-> IF get_fails THEN -1 ELSE Max(items, 0)]>>
         IN  IF get_fails
             THEN [raised |-> None,
                   text |-> <<[t |-> "Error executing search: {str(e)}"]>>,
                   trace |-> called]
             ELSE IF items <= 0
             THEN [raised |-> None, text |-> <<[t |-> "No results found."]>>,
                   trace |-> called]
             ELSE [raised |-> None, text |-> WebSearchLines(items),
                   trace |-> called]

SearchToolsInit ==
    /\ call = Idle
    /\ result = Idle
    /\ trace = <<>>
    /\ tables = DefaultTables
    /\ data_cache = EmptyCache
    /\ dietary_docs = <<>>
    /\ food_json = DefaultFoodFile
    /\ food_data_cache = EmptyFoodCache
    /\ food_docs = <<>>
    /\ elevenlabs_client = None
    /\ agent = None
    /\ memory = <<>>
    /\ file_reads = NoReads
    /\ tavily_client = None

TavilyInitCall ==
    /\ call = Idle
    /\ \E api_key \in Keys :
        \E out \in {TavilySearchTool_init(api_key)} :
            /\ call' = [fn |-> "TavilySearchTool.__init__", api_key |-> api_key]
            /\ result' = [raised |-> out.raised, text |-> <<>>]
            /\ tavily_client' = out.client
    /\ trace' = <<>>
    /\ UNCHANGED <<storeVars, elevenlabs_client, agent, memory>>

WebSearchInitCall ==
    /\ call = Idle
    /\ call' = [fn |-> "WebSearchTool.__init__"]
    /\ result' = [raised |-> WebSearchTool_init.raised, text |-> <<>>]
    /\ trace' = <<>>
    /\ UNCHANGED <<storeVars, webVars>>

WebSearchExecuteCall ==
    /\ call = Idle
    /\ \E query \in WebQueries, api_key \in Keys, cse_id \in Keys,
          get_fails \in BOOLEAN, items \in WebItems :
        \E out \in {web_search_execute(query, api_key, cse_id, get_fails, items)} :
            /\ call' = [fn |-> "WebSearchTool.execute", query |-> query,
                        api_key |-> api_key, cse_id |-> cse_id,
                        search_fails |-> get_fails, held |-> items]
            /\ result' = [raised |-> out.raised, text |-> out.text]
            /\ trace' = out.trace
    /\ UNCHANGED <<storeVars, webVars>>

SearchToolsNext ==
    \/ TavilyInitCall
    \/ WebSearchInitCall
    \/ WebSearchExecuteCall
    \/ TavilyExecuteCall
    \/ Return

SpecSearchTools == SearchToolsInit /\ [][SearchToolsNext]_vars

\* C16: with the API key (or the search-engine id) not configured, both
\* web-search tools can still be constructed, and execute returns an error
\* text without any external request and without raising.
C16_MissingCredentials ==
    /\ (call.fn = "TavilySearchTool.__init__" /\ Falsy(call.api_key))
          => result.raised = None
    /\ call.fn = "WebSearchTool.__init__" => result.raised = None
    /\ (call.fn = "WebSearchTool.execute"
            /\ (Falsy(call.api_key) \/ Falsy(call.cse_id)))
          => /\ result.raised = None
             /\ trace = <<>>
             /\ result.text
                  = <<[t |-> "Error: Google Search API key or Engine ID not configured."]>>

(***************************************************************************)
(* Concurrent reads of one store instance                                  *)
(***************************************************************************)

Threads == {1, 2}

NoKey == [fdc_id |-> 0, age_group |-> "", gender |-> ""]

Pending == [done |-> FALSE, raised |-> None, found |-> FALSE, hits |-> 0]

Thread(op, key) == [op |-> op, pc |-> "start", key |-> key, seen |-> {}, out |-> Pending]

\* the read operations two callers may run at the same time
ReadOps ==
    {Thread("get_requirements_by_key",
            [fdc_id |-> 0, age_group |-> p[1], gender |-> p[2]]) :
        p \in {<<"19-64", "male">>, <<"4-6", "female">>, <<"1", "male">>}}
    \cup {Thread("get_food_by_id", [fdc_id |-> i, age_group |-> "", gender |-> ""]) :
            i \in {1, 5}}
    \cup {Thread("dietary search", NoKey), Thread("food search", NoKey)}

ConcurrentInit ==
    /\ \E a \in ReadOps, b \in ReadOps :
          call = [fn |-> "concurrent", threads |-> <<a, b>>]
    /\ result = Idle
    /\ trace = <<>>
    /\ tables \in TableSets
    /\ data_cache = EmptyCache
    /\ dietary_docs = Take(DietaryRanking, 2)
    /\ food_json \in FoodFiles
    /\ food_data_cache = EmptyFoodCache
    /\ food_docs = Take(FoodRanking, 2)
    /\ elevenlabs_client = None
    /\ agent = None
    /\ memory = <<>>
    /\ file_reads = NoReads
    /\ tavily_client = None

At(t, op, pc) == call.threads[t].op = op /\ call.threads[t].pc = pc

Goto(t, pc) == call' = [call EXCEPT !.threads[t].pc = pc]

Finish(t, out) ==
    call' = [call EXCEPT !.threads[t].pc = "done", !.threads[t].out = out]

\* `if self._data_cache is not None: return`
LoadDataCacheTest(t) ==
    /\ At(t, "get_requirements_by_key", "start")
    /\ Goto(t, IF data_cache.loaded THEN "read minerals" ELSE "assign")
    /\ UNCHANGED <<result, trace, storeVars, webVars>>

\* `self._data_cache = {'minerals': {}, 'vitamins': {}, 'nutrition': {}}`
LoadDataCacheAssign(t) ==
    /\ At(t, "get_requirements_by_key", "assign")
    /\ data_cache' = [EmptyCache EXCEPT !.loaded = TRUE]
    /\ Goto(t, "load minerals")
    /\ UNCHANGED <<result, trace, tables, dietary_docs, food_json,
                   food_data_cache, food_docs, file_reads, webVars>>

NextGroup(group) ==
    CASE group = "minerals" -> "vitamins"
      [] group = "vitamins" -> "nutrition"
      [] group = "nutrition" -> "minerals"

\* the thread's position before the load and before the read of a group
LoadPc(group) ==
    CASE group = "minerals" -> "load minerals"
      [] group = "vitamins" -> "load vitamins"
      [] group = "nutrition" -> "load nutrition"

ReadPc(group) ==
    CASE group = "minerals" -> "read minerals"
      [] group = "vitamins" -> "read vitamins"
      [] group = "nutrition" -> "read nutrition"

\* `self._data_cache[group] = json.load(f)`, under its existence test and
\* its try/except
LoadDataCacheFile(t, group) ==
    /\ At(t, "get_requirements_by_key", LoadPc(group))
    /\ data_cache' = [data_cache EXCEPT ![group] = LoadTable(tables[group])]
    /\ Goto(t, IF group = "nutrition" THEN "read minerals"
               ELSE LoadPc(NextGroup(group)))
    /\ file_reads' = Bump(file_reads,
                          IF tables[group].file # "missing" THEN {group} ELSE {})
    /\ UNCHANGED <<result, trace, tables, dietary_docs, food_json,
                   food_data_cache, food_docs, webVars>>

\* `self._data_cache.get(group, {}).get(age_group, {}).get(gender, {})`, and
\* after the third the test of the three and the return
ReadGroup(t, group) ==
    /\ At(t, "get_requirements_by_key", ReadPc(group))
    /\ LET th == call.threads[t]
           seen == IF GroupOf(data_cache, group, th.key.age_group, th.key.gender) # <<>>
                   THEN th.seen \cup {group} ELSE th.seen
       IN  IF data_cache[group].shape = "list"
           THEN Finish(t, [Pending EXCEPT !.done = TRUE, !.raised = "AttributeError"])
           ELSE IF group = "nutrition"
           THEN call' = [call EXCEPT !.threads[t].pc = "done",
                                     !.threads[t].seen = seen,
                                     !.threads[t].out =
                                         [Pending EXCEPT !.done = TRUE,
                                                         !.found = seen # {}]]
           ELSE call' = [call EXCEPT !.threads[t].pc = ReadPc(NextGroup(group)),
                                     !.threads[t].seen = seen]
    /\ UNCHANGED <<result, trace, storeVars, webVars>>

\* `if self._food_data_cache is not None: return`
LoadFoodCacheTest(t) ==
    /\ At(t, "get_food_by_id", "start")
    /\ Goto(t, IF food_data_cache.loaded THEN "read" ELSE "assign")
    /\ UNCHANGED <<result, trace, storeVars, webVars>>

\* `self._food_data_cache = {...}`, or `= {}`: one assignment of the whole
\* mapping
LoadFoodCacheAssign(t) ==
    /\ At(t, "get_food_by_id", "assign")
    /\ food_data_cache' = load_food_data_cache(EmptyFoodCache, food_json)
    /\ Goto(t, "read")
    /\ file_reads' = Bump(file_reads, FoodFileOpened(EmptyFoodCache, food_json))
    /\ UNCHANGED <<result, trace, tables, data_cache, dietary_docs, food_json,
                   food_docs, webVars>>

\* the lookup in the cache and the fallback to the collection
ReadFood(t) ==
    /\ At(t, "get_food_by_id", "read")
    /\ Finish(t, [Pending EXCEPT !.done = TRUE,
                    !.found = get_food_by_id(food_data_cache,
                                             call.threads[t].key.fdc_id,
                                             FALSE).foodNutrients # <<>>])
    /\ UNCHANGED <<result, trace, storeVars, webVars>>

\* search of either store: it reads the collection only
SearchRead(t) ==
    /\ call.threads[t].pc = "start"
    /\ call.threads[t].op \in {"dietary search", "food search"}
    /\ Finish(t, [Pending EXCEPT !.done = TRUE,
                    !.hits = Len(search(IF call.threads[t].op = "dietary search"
                                        THEN dietary_docs ELSE food_docs,
                                        1, FALSE).hits)])
    /\ UNCHANGED <<result, trace, storeVars, webVars>>

ConcurrentNext ==
    \E t \in Threads :
        \/ LoadDataCacheTest(t)
        \/ LoadDataCacheAssign(t)
        \/ \E group \in {"minerals", "vitamins", "nutrition"} :
              LoadDataCacheFile(t, group) \/ ReadGroup(t, group)
        \/ LoadFoodCacheTest(t)
        \/ LoadFoodCacheAssign(t)
        \/ ReadFood(t)
        \/ SearchRead(t)

SpecConcurrent == ConcurrentInit /\ [][ConcurrentNext]_vars

\* what the operation of a thread returns when it runs alone, from its first
\* step to its last, on the store as created
Alone(th) ==
    CASE th.op = "get_requirements_by_key" ->
           Let(get_requirements_by_key(load_data_cache(EmptyCache, tables),
                                       th.key.age_group, th.key.gender),
               LAMBDA r : [Pending EXCEPT !.done = TRUE, !.raised = r.raised,
                                          !.found = r.found])
      [] th.op = "get_food_by_id" ->
           [Pending EXCEPT !.done = TRUE,
              !.found = get_food_by_id(load_food_data_cache(EmptyFoodCache, food_json),
                                       th.key.fdc_id, FALSE).foodNutrients # <<>>]
      [] th.op = "dietary search" ->
           [Pending EXCEPT !.done = TRUE, !.hits = Len(search(dietary_docs, 1, FALSE).hits)]
      [] th.op = "food search" ->
           [Pending EXCEPT !.done = TRUE, !.hits = Len(search(food_docs, 1, FALSE).hits)]

\* C17: over every interleaving of two concurrent read operations on one
\* store instance, each operation returns what it returns when the
\* operations run one after another; none reads a cache that is partly
\* loaded.
C17_ConcurrentReadsAsSequential ==
    call.fn = "concurrent" =>
        \A t \in Threads :
            call.threads[t].pc = "done" => call.threads[t].out = Alone(call.threads[t])

(***************************************************************************)
(* The setup scripts and the stores' read operations                       *)
(***************************************************************************)

\* what the operator types at the re-index prompt
Responses == {"y", "Y", "n", "", "yes"}

\* response.lower()
response_lower(response) ==
    IF response = "Y" THEN "y" ELSE response

\* a plausible slip: only an explicit "n" declines
DeclinesOnlyN(response) == response_lower(response) = "n"

\* `if response.lower() != 'y'`
Declines(response) == response_lower(response) # "y"

\* the source files of a store exist
SourcesExist(store) ==
    IF store = "usda_nutrition" THEN food_json.file # "missing"
    ELSE \A g \in {"minerals", "vitamins", "nutrition"} : tables[g].file # "missing"

\* setup_usda_rag and setup_dietary_rag, of setup_rag.py and of
\* setup_dietary_rag.py (which has no reindex parameter): `value` is 1 for
\* True and 0 for False or None
setup_rag(store, docs, exist, reindex, response, documents, embed_fails, existing_ids) ==
    IF ~exist
    THEN [raised |-> None, value |-> 0, docs |-> docs, trace |-> <<>>]
    ELSE LET existing_count == get_collection_count(docs)
             counted == <<[m |-> "get_collection_count", raised |-> None]>>
             asked == <<[m |-> "input", raised |-> None]>>
             deleted == <<[m |-> "delete_collection", raised |-> None],
                          [m |-> "get_or_create_collection", raised |-> None]>>
         IN  IF existing_count > 0 /\ ~reindex /\ Declines(response)
             THEN [raised |-> None, value |-> 0, docs |-> docs,
                   trace |-> counted \o asked]
             ELSE Let(add_documents(store, IF existing_count > 0 THEN <<>> ELSE docs,
                                    documents, embed_fails, existing_ids),
                      LAMBDA added :
                        [raised |-> added.raised,
                         value |-> IF added.raised = None THEN 1 ELSE 0,
                         docs |-> added.docs,
                         trace |-> counted
                                   \o (IF existing_count > 0 /\ ~reindex
                                       THEN asked ELSE <<>>)
                                   \o (IF existing_count > 0 THEN deleted ELSE <<>>)
                                   \o <<[m |-> "add_documents",
                                         raised |-> added.raised]>>])

\* the setup functions of a store
SetupOf(store) ==
    IF store = "usda_nutrition" THEN {"setup_usda_rag"}
    ELSE {"setup_dietary_rag", "setup_dietary_rag.py"}

SetupCall ==
    /\ call = Idle
    /\ \E store \in Stores, embed_fails \in BOOLEAN,
          existing_ids \in {"kept", "rejected"}, response \in Responses :
       \E fn \in SetupOf(store), documents \in {SourceDocuments(store)} :
       \E reindex \in IF fn = "setup_dietary_rag.py" THEN {FALSE} ELSE BOOLEAN :
       \E out \in {setup_rag(store, CollectionOf(store), SourcesExist(store),
                             reindex, response, documents, embed_fails,
                             existing_ids)} :
          /\ call' = [fn |-> fn, store |-> store,
                      ids |-> IdsOf(store, documents),
                      embed_fails |-> embed_fails, reindex |-> reindex,
                      response |-> response]
          /\ result' = [raised |-> out.raised, value |-> out.value]
          /\ trace' = out.trace
          /\ IF store = "usda_nutrition"
             THEN food_docs' = out.docs /\ UNCHANGED dietary_docs
             ELSE dietary_docs' = out.docs /\ UNCHANGED food_docs
    /\ UNCHANGED <<tables, data_cache, food_json, food_data_cache, file_reads, webVars>>

ReadCall(fn, store) ==
    [fn |-> fn, store |-> store, ids |-> {}, embed_fails |-> FALSE,
     reindex |-> FALSE, response |-> ""]

\* search of either store
StoreSearchCall ==
    /\ call = Idle
    /\ \E store \in Stores, n_results \in {1, MaxBatch}, fails \in BOOLEAN :
       \E out \in {search(CollectionOf(store), n_results, fails)} :
          /\ call' = ReadCall("search", store)
          /\ result' = [raised |-> out.raised, value |-> Len(out.hits)]
    /\ trace' = <<>>
    /\ UNCHANGED <<storeVars, webVars>>

\* get_food_by_id: the cache is loaded on the first call
GetFoodByIdCall ==
    /\ call = Idle
    /\ \E fdc_id \in {1, MaxBatch + 2}, fails \in BOOLEAN :
       \E cache \in {load_food_data_cache(food_data_cache, food_json)} :
       \E out \in {get_food_by_id(cache, fdc_id, fails)} :
          /\ call' = ReadCall("get_food_by_id", "usda_nutrition")
          /\ result' = [raised |-> out.raised, value |-> Len(out.foodNutrients)]
          /\ food_data_cache' = cache
          /\ file_reads' = Bump(file_reads, FoodFileOpened(food_data_cache, food_json))
          /\ trace' = <<[m |-> "_load_food_data_cache", raised |-> None,
                          opened |-> FoodFileOpened(food_data_cache, food_json)]>>
    /\ UNCHANGED <<tables, data_cache, dietary_docs, food_json, food_docs, webVars>>

\* get_requirements_by_key: the cache is loaded on the first call
GetRequirementsByKeyCall ==
    /\ call = Idle
    /\ \E age_group \in {"19-64", "0"}, gender \in Genders :
       \E cache \in {load_data_cache(data_cache, tables)} :
       \E out \in {get_requirements_by_key(cache, age_group, gender)} :
          /\ call' = ReadCall("get_requirements_by_key", "dietary_requirements")
          /\ result' = [raised |-> out.raised, value |-> IF out.found THEN 1 ELSE 0]
          /\ data_cache' = cache
          /\ file_reads' = Bump(file_reads, TablesOpened(data_cache, tables))
          /\ trace' = <<[m |-> "_load_data_cache", raised |-> None,
                          opened |-> TablesOpened(data_cache, tables)]>>
    /\ UNCHANGED <<tables, dietary_docs, food_json, food_data_cache, food_docs, webVars>>

LifecycleInit ==
    /\ call = Idle
    /\ result = Idle
    /\ trace = <<>>
    /\ tables \in {t \in TableSets : \A g \in DOMAIN t : t[g].file \in {"ok", "missing"}}
    /\ data_cache = EmptyCache
    /\ dietary_docs = <<>>
    /\ food_json \in FoodFiles
    /\ food_data_cache = EmptyFoodCache
    /\ food_docs = <<>>
    /\ elevenlabs_client = None
    /\ agent = None
    /\ memory = <<>>
    /\ file_reads = NoReads
    /\ tavily_client = None

LifecycleNext ==
    \/ AddDocumentsCall
    \/ SetupCall
    \/ GetCollectionCountCall
    \/ StoreSearchCall
    \/ GetFoodByIdCall
    \/ GetRequirementsByKeyCall
    \/ NutritionExecute({<<"x">>}, {1})
    \/ DietaryExecute({<<"x">>}, {NoneInt, <<23>>}, {"male"}, {1})
    \/ Return

SpecLifecycle == LifecycleInit /\ [][LifecycleNext]_vars

ReadOperations ==
    {"search", "get_food_by_id", "get_requirements_by_key", "get_collection_count",
     "NutritionLookupTool.execute", "DietaryRequirementsTool.execute"}

SetupFunctions == {"setup_usda_rag", "setup_dietary_rag", "setup_dietary_rag.py"}

Changed(store) == CollectionOf(store)' # CollectionOf(store)

\* C18: the documents of a collection change only in add_documents and in a
\* setup run that the operator confirmed (by the reindex argument or by
\* answering y at the prompt) or that found the collection empty; a
\* collection goes from empty to populated only through add_documents, called
\* directly or by the setup run; the read operations and both tools' execute
\* leave the collections as they are, and so does a setup run whose prompt
\* is declined.
C18_IndexLifecycle ==
    [][/\ \A store \in Stores :
            Changed(store) =>
                /\ call'.fn \in {"add_documents"} \cup SetupFunctions
                /\ call'.store = store
                /\ call'.fn \in SetupFunctions =>
                      \/ CollectionOf(store) = <<>>
                      \/ call'.reindex
                      \/ response_lower(call'.response) = "y"
                /\ (CollectionOf(store) = <<>>) =>
                      \/ call'.fn = "add_documents"
                      \/ \E i \in 1..Len(trace') : trace'[i].m = "add_documents"
       /\ call'.fn \in ReadOperations =>
             ~Changed("usda_nutrition") /\ ~Changed("dietary_requirements")
       /\ (/\ call'.fn \in SetupFunctions
           /\ \E i \in 1..Len(trace') : trace'[i].m = "input"
           /\ response_lower(call'.response) # "y")
             => ~Changed("usda_nutrition") /\ ~Changed("dietary_requirements")]_vars

\* a setup run on a populated collection asked, was declined and left the
\* collection as it was
C18_Witness ==
    /\ call.fn \in SetupFunctions
    /\ call.response = ""
    /\ ~call.reindex
    /\ \E i \in 1..Len(trace) : trace[i].m = "input"
    /\ result = [raised |-> None, value |-> 0]
    /\ CollectionOf(call.store) # <<>>

(***************************************************************************)
(* The nutrient lists of a food item                                       *)
(***************************************************************************)

\* the names of the foodNutrients of an item, in the order of the catalog's
\* items; an amount is the place of the name
CatalogNames ==
    << "Water", "Energy", "Energy", "Nitrogen", "Protein", "Total lipid (fat)",
       "Ash", "Carbohydrate, by difference", "Fiber, total dietary",
       "Sugars, total including NLEA", "Calcium, Ca", "Iron, Fe",
       "Magnesium, Mg", "Potassium, K", "Sodium, Na", "Zinc, Zn",
       "Vitamin C, total ascorbic acid", "", "Calcium", "Iron", "Vitamin C",
       "Vitamin A", "Sodium", "Copper, Cu" >>

Catalog ==
    [i \in 1..Len(CatalogNames) |->
        [name |-> CatalogNames[i], amount |-> <<i>>,
         unit |-> IF i = 2 THEN "kcal" ELSE IF i = 3 THEN "kJ" ELSE "g"]]

\* a run of the catalog with the amount of entry z zero and the amount of
\* entry m missing
NutrientList(a, b, z, m) ==
    LET run == SubSeq(Catalog, a, b)
    IN  [i \in 1..Len(run) |->
            IF i = m THEN [run[i] EXCEPT !.amount = NoneInt]
            ELSE IF i = z THEN [run[i] EXCEPT !.amount = <<0>>]
            ELSE run[i]]

NutrientLists ==
    {NutrientList(a, b, z, m) :
        a \in 1..Len(CatalogNames), b \in 0..Len(CatalogNames),
        z \in {0, 1, 2, 6}, m \in {0, 1, 3}}

NutrientsInit ==
    /\ call = Idle
    /\ result = Idle
    /\ trace = <<>>
    /\ tables = DefaultTables
    /\ data_cache = EmptyCache
    /\ dietary_docs = <<>>
    /\ food_json = DefaultFoodFile
    /\ food_data_cache = EmptyFoodCache
    /\ food_docs = <<>>
    /\ elevenlabs_client = None
    /\ agent = None
    /\ memory = <<>>
    /\ file_reads = NoReads
    /\ tavily_client = None

\* the part of NutritionLookupTool.execute that builds key_nutrients[:8] for
\* a hit from the foodNutrients of its item
KeyNutrientsCall ==
    /\ call = Idle
    /\ \E foodNutrients \in NutrientLists :
          /\ call' = [fn |-> "key_nutrients", foodNutrients |-> foodNutrients]
          /\ result' = [raised |-> None, entries |-> KeyNutrients(foodNutrients)]
    /\ trace' = <<>>
    /\ UNCHANGED <<storeVars, webVars>>

NutrientsNext ==
    \/ KeyNutrientsCall
    \/ Return

SpecNutrients == NutrientsInit /\ [][NutrientsNext]_vars

HasAmount(nutrient) == nutrient.amount # NoneInt /\ nutrient.amount # <<0>>

\* the places in the allow-list (Energy, Protein, Fat, Carbs, Fiber, Calcium,
\* Iron, Vitamin C, Sodium, Sugars) of the names a list holds with an amount
PresentImportant(nutrients) ==
    {k \in 1..Len(important_nutrients) :
        \E i \in 1..Len(nutrients) :
            nutrients[i].name = important_nutrients[k].usda /\ HasAmount(nutrients[i])}

\* the k-th smallest member of a set of numbers
RECURSIVE Nth(_, _)
Nth(S, k) ==
    LET least == CHOOSE x \in S : \A y \in S : x <= y
    IN  IF k = 1 THEN least ELSE Nth(S \ {least}, k - 1)

\* C19: the Key Nutrients list of a hit has at most 8 entries; the
\* allow-listed nutrients its item holds with a nonzero amount come first, in
\* the order of the allow-list, followed by at most 5 other nutrients; every
\* entry shown is a nutrient the item holds with a nonzero amount.
C19_KeyNutrientsList ==
    call.fn = "key_nutrients" =>
        LET shown == result.entries
            nutrients == call.foodNutrients
            present == PresentImportant(nutrients)
            p == Min(Cardinality(present), KeyNutrientsShown)
        IN  /\ Len(shown) <= 8
            /\ Len(shown) >= p
            /\ \A k \in 1..p :
                  shown[k].label = important_nutrients[Nth(present, k)].display
            /\ Len(shown) - p <= 5
            /\ \A k \in (p + 1)..Len(shown) :
                  /\ ~IsImportant(shown[k].label)
                  /\ \E i \in 1..Len(nutrients) :
                        /\ nutrients[i].name = shown[k].label
                        /\ nutrients[i].amount = shown[k].amount
            /\ \A k \in 1..Len(shown) :
                  /\ shown[k].amount # NoneInt
                  /\ shown[k].amount # <<0>>
                  /\ \E i \in 1..Len(nutrients) :
                        /\ nutrients[i].amount = shown[k].amount
                        /\ HasAmount(nutrients[i])
                        /\ k <= p =>
                              nutrients[i].name = important_nutrients[Nth(present, k)].usda

\* a list of 8 entries: allow-listed nutrients first, then others, with a
\* nutrient of the item left out for its zero amount
C19_Witness ==
    /\ call.fn = "key_nutrients"
    /\ Len(result.entries) = 8
    /\ result.entries[1].label = "Calories"
    /\ ~IsImportant(result.entries[8].label)
    /\ result.entries[8].label # "Sugars"
    /\ \E i \in 1..Len(call.foodNutrients) : call.foodNutrients[i].amount = <<0>>
    /\ \E i \in 1..Len(call.foodNutrients) : call.foodNutrients[i].amount = NoneInt

(***************************************************************************)
(* create_document: the nutrient list of a document's text                 *)
(***************************************************************************)

\* important_nutrients of create_document
document_important_nutrients ==
    {"Energy", "Protein", "Total lipid (fat)", "Carbohydrate, by difference",
     "Fiber, total dietary", "Calcium", "Iron", "Vitamin C", "Vitamin A",
     "Sodium", "Sugars, total including NLEA"}

\* `len(nutrient_text) < 15`
NutrientTextLimit == 15

NutrientEntry(nutrient) ==
    [label |-> nutrient.name, amount |-> nutrient.amount, unit |-> nutrient.unit]

\* the first loop: every allow-listed entry with an amount
RECURSIVE ImportantEntries(_)
ImportantEntries(nutrients) ==
    IF nutrients = <<>> THEN <<>>
    ELSE (IF Head(nutrients).name \in document_important_nutrients
             /\ Head(nutrients).amount # NoneInt /\ Head(nutrients).amount # <<0>>
          THEN <<NutrientEntry(Head(nutrients))>> ELSE <<>>)
         \o ImportantEntries(Tail(nutrients))

\* the second loop: the other entries with an amount, while the list holds
\* fewer than 15
RECURSIVE OtherEntries(_, _)
OtherEntries(nutrients, nutrient_text) ==
    IF nutrients = <<>> THEN nutrient_text
    ELSE OtherEntries(Tail(nutrients),
            IF /\ Head(nutrients).name \notin document_important_nutrients
               /\ Len(nutrient_text) < NutrientTextLimit
               /\ Head(nutrients).amount # NoneInt
               /\ Head(nutrients).amount # <<0>>
            THEN Append(nutrient_text, NutrientEntry(Head(nutrients)))
            ELSE nutrient_text)

\* create_document: the entries of the "Nutrients:" line
create_document(foodNutrients) ==
    OtherEntries(foodNutrients, ImportantEntries(foodNutrients))

\* the most entries of one name an item holds
MaxSameName == 16

\* an item that holds the same nutrient several times (Energy in kcal, in kJ,
\* by the Atwater factors, ...)
Repeated(k) == [i \in 1..k |-> Catalog[2]]

FoodItems ==
    NutrientLists
    \cup {SubSeq(Catalog, 1, b) \o Repeated(k) :
            b \in {0, 10, Len(CatalogNames)}, k \in 1..MaxSameName}

CreateDocumentCall ==
    /\ call = Idle
    /\ \E foodNutrients \in FoodItems :
          /\ call' = [fn |-> "create_document", foodNutrients |-> foodNutrients]
          /\ result' = [raised |-> None, entries |-> create_document(foodNutrients)]
    /\ trace' = <<>>
    /\ UNCHANGED <<storeVars, webVars>>

DocumentsNext ==
    \/ CreateDocumentCall
    \/ Return

SpecDocuments == NutrientsInit /\ [][DocumentsNext]_vars

\* C20: the nutrient list of a document's text has at most 15 entries, every
\* allow-listed entry precedes every other entry, and no entry has a zero or
\* missing amount.
C20_DocumentNutrients ==
    call.fn = "create_document" =>
        LET entries == result.entries
        IN  /\ Len(entries) <= 15
            /\ \A i \in 1..Len(entries), j \in 1..Len(entries) :
                  (/\ entries[i].label \in document_important_nutrients
                   /\ entries[j].label \notin document_important_nutrients)
                      => i < j
            /\ \A i \in 1..Len(entries) :
                  entries[i].amount # NoneInt /\ entries[i].amount # <<0>>

(***************************************************************************)
(* The document builders                                                   *)
(***************************************************************************)

\* str(n) for an integer n >= 0, as its decimal digits
RECURSIVE DecimalOf(_)
DecimalOf(n) ==
    IF n < 10 THEN <<n>> ELSE Append(DecimalOf(n \div 10), n % 10)

\* food_item.get('fdcId', ''): the item's fdcId, '' when it has none
FdcIdOf(food_item) == food_item.fdcId

\* str(fdc_id): the digits of an id, the empty string for ''
str(fdc_id) == IF fdc_id = NoneInt THEN <<>> ELSE DecimalOf(fdc_id[1])

\* process_all_foods: one document per item of FoundationFoods, in order; of
\* create_document's result the id, the metadata and the nutrient entries
process_all_foods(foods) ==
    [i \in 1..Len(foods) |->
        [id |-> str(FdcIdOf(foods[i])), fdc_id |-> FdcIdOf(foods[i]),
         description |-> foods[i].description,
         entries |-> create_document(foods[i].foodNutrients)]]

\* the most items of a catalog
MaxFoods == 3

\* the items of a catalog file: with an fdcId (9, 10, 123) or without
FoodItemsOfCatalog ==
    {[fdcId |-> id, description |-> d, foodNutrients |-> SubSeq(Catalog, 1, d)] :
        id \in {NoneInt, <<9>>, <<10>>, <<123>>}, d \in {1, 2}}

RECURSIVE SeqsUpTo(_, _)
SeqsUpTo(S, n) ==
    IF n = 0 THEN {<<>>}
    ELSE LET shorter == SeqsUpTo(S, n - 1)
         IN  shorter \cup {Append(s, x) : s \in shorter, x \in S}

Catalogs == SeqsUpTo(FoodItemsOfCatalog, MaxFoods)

ProcessAllFoodsCall ==
    /\ call = Idle
    /\ \E foods \in Catalogs :
          /\ call' = [fn |-> "process_all_foods", foods |-> foods]
          /\ result' = [raised |-> None, documents |-> process_all_foods(foods)]
    /\ trace' = <<>>
    /\ UNCHANGED <<storeVars, webVars>>

Unique(ids) == \A i \in 1..Len(ids), j \in 1..Len(ids) : ids[i] = ids[j] => i = j

\* C21: process_all_foods produces no document for a catalog item without an
\* identifier: the documents are those of the items that have one, in
\* order; no document has an empty id, and the ids of the documents are
\* unique whenever the identifiers of the catalog's items are.
C21_ItemsWithoutIdSkipped ==
    call.fn = "process_all_foods" =>
        LET foods == call.foods
            documents == result.documents
            with_id == SelectSeq(foods, LAMBDA f : f.fdcId # NoneInt)
        IN  /\ result.raised = None
            /\ Len(documents) = Len(with_id)
            /\ \A i \in 1..Len(documents) : documents[i].id # <<>>
            /\ Unique([i \in 1..Len(with_id) |-> with_id[i].fdcId])
                  => Unique([i \in 1..Len(documents) |-> documents[i].id])

\* the age-group keys of the source tables of the builder's inputs, as
\* sorted() orders them
SortedKeys == <<"1", "19-64", "1_fe", "4-6">>

KeyChars(age_group) ==
    CASE age_group = "1" -> <<"1">>
      [] age_group = "19-64" -> <<"1", "9", "-", "6", "4">>
      [] age_group = "1_fe" -> <<"1", "_", "f", "e">>
      [] age_group = "4-6" -> <<"4", "-", "6">>

\* f"dietary_{age_group}_{gender}"
doc_id(age_group, gender) ==
    <<"d", "i", "e", "t", "a", "r", "y", "_">> \o KeyChars(age_group)
        \o <<"_">> \o Chars(gender)

\* data.get(age_group, {}).get(gender, {}) of one table: the nutrients of
\* the pair, {} when the table has none for it
NutrientsIn(table, group, age_group, gender) ==
    IF <<age_group, gender>> \in table.pairs THEN EntriesOf(group) ELSE <<>>

\* a plausible slip: a pair is kept only when all three groups have data
HasAllData(minerals, vitamins, nutrition) ==
    minerals # <<>> /\ vitamins # <<>> /\ nutrition # <<>>

\* `minerals or vitamins or nutrition`
HasData(minerals, vitamins, nutrition) ==
    minerals # <<>> \/ vitamins # <<>> \/ nutrition # <<>>

\* create_unified_document: the id, the metadata and the full data
create_unified_document(age_group, gender, minerals, vitamins, nutrition) ==
    [id |-> doc_id(age_group, gender), age_group |-> age_group, gender |-> gender,
     minerals |-> minerals, vitamins |-> vitamins, nutrition |-> nutrition]

\* the body of the two loops for one age group and one gender
DocumentsOfPair(data, age_group, gender) ==
    LET minerals == NutrientsIn(data.minerals, "minerals", age_group, gender)
        vitamins == NutrientsIn(data.vitamins, "vitamins", age_group, gender)
        nutrition == NutrientsIn(data.nutrition, "nutrition", age_group, gender)
    IN  IF ~HasData(minerals, vitamins, nutrition) THEN <<>>
        ELSE <<create_unified_document(age_group, gender, minerals, vitamins,
                                       nutrition)>>

\* process_all_dietary_data: sorted(age_groups) from place k on, male before
\* female
RECURSIVE DocumentsFrom(_, _)
DocumentsFrom(data, k) ==
    IF k > Len(SortedKeys) THEN <<>>
    ELSE (IF SortedKeys[k] \in data.minerals.keys \cup data.vitamins.keys
                                  \cup data.nutrition.keys
          THEN DocumentsOfPair(data, SortedKeys[k], "male")
                  \o DocumentsOfPair(data, SortedKeys[k], "female")
          ELSE <<>>)
         \o DocumentsFrom(data, k + 1)

process_all_dietary_data(data) == DocumentsFrom(data, 1)

\* a source table: its age-group keys and the pairs it has nutrients for (a
\* key may map to no gender, or a gender to no nutrient)
DietaryTable(keys, pairs) == [keys |-> keys, pairs |-> pairs]

DietaryTablesOfBuilder ==
    {DietaryTable({}, {}),
     DietaryTable({"1", "19-64"}, {<<"19-64", "male">>}),
     DietaryTable({"1", "1_fe", "4-6"},
                  {<<"1", "male">>, <<"1", "female">>, <<"1_fe", "male">>}),
     DietaryTable({"1", "19-64", "1_fe", "4-6"},
                  {<<"1", "female">>, <<"19-64", "male">>, <<"19-64", "female">>,
                   <<"4-6", "female">>})}

ProcessAllDietaryDataCall ==
    /\ call = Idle
    /\ \E minerals \in DietaryTablesOfBuilder, vitamins \in DietaryTablesOfBuilder,
          nutrition \in DietaryTablesOfBuilder :
       \E data \in {[minerals |-> minerals, vitamins |-> vitamins,
                     nutrition |-> nutrition]} :
          /\ call' = [fn |-> "process_all_dietary_data", data |-> data]
          /\ result' = [raised |-> None,
                        documents |-> process_all_dietary_data(data)]
    /\ trace' = <<>>
    /\ UNCHANGED <<storeVars, webVars>>



\* the age-group keys of the three tables of a call
KeysOf(data) == data.minerals.keys \cup data.vitamins.keys \cup data.nutrition.keys

\* some table of a call has nutrients for the pair
SomeGroupNonEmpty(data, age_group, gender) ==
    \E g \in {"minerals", "vitamins", "nutrition"} :
        <<age_group, gender>> \in data[g].pairs

\* C22: process_all_dietary_data produces exactly one document for each pair
\* of an age group among the keys of the three tables and a gender of male,
\* female that has nutrients in at least one table, none for any other
\* pair, and the ids of the documents are pairwise distinct.
C22_OneDocumentPerPair ==
    call.fn = "process_all_dietary_data" =>
        LET documents == result.documents
            of(age_group, gender) ==
                {i \in 1..Len(documents) :
                    documents[i].age_group = age_group /\ documents[i].gender = gender}
        IN  /\ \A i \in 1..Len(documents) :
                  /\ documents[i].age_group \in KeysOf(call.data)
                  /\ documents[i].gender \in Genders
            /\ \A age_group \in KeysOf(call.data), gender \in Genders :
                  Cardinality(of(age_group, gender))
                      = IF SomeGroupNonEmpty(call.data, age_group, gender) THEN 1 ELSE 0
            /\ Unique([i \in 1..Len(documents) |-> documents[i].id])

\* documents were produced, for pairs that only some tables know, and a key
\* of the tables got none
C22_Witness ==
    /\ call.fn = "process_all_dietary_data"
    /\ Len(result.documents) >= 3
    /\ \E i \in 1..Len(result.documents) :
          result.documents[i].minerals = <<>> /\ result.documents[i].vitamins # <<>>
    /\ \E age_group \in KeysOf(call.data) :
          \A gender \in Genders : ~SomeGroupNonEmpty(call.data, age_group, gender)

(***************************************************************************)
(* The lazy load of the record caches                                      *)
(***************************************************************************)

\* a catalog file that exists and cannot be parsed
BrokenFoodFile == [file |-> "not json", foods |-> {}]

\* a store instance just constructed, on source files of every kind
LazyInit ==
    /\ call = Idle
    /\ result = Idle
    /\ trace = <<>>
    /\ tables \in TableSets
    /\ data_cache = EmptyCache
    /\ dietary_docs = Take(DietaryRanking, 2)
    /\ food_json \in FoodFiles \cup {BrokenFoodFile}
    /\ food_data_cache = EmptyFoodCache
    /\ food_docs = Take(FoodRanking, 2)
    /\ file_reads = NoReads
    /\ elevenlabs_client = None
    /\ agent = None
    /\ memory = <<>>
    /\ tavily_client = None

LazyNext ==
    \/ GetFoodByIdCall
    \/ GetRequirementsByKeyCall
    \/ StoreSearchCall
    \/ GetCollectionCountCall
    \/ Return

SpecLazy == LazyInit /\ [][LazyNext]_vars

SourceFiles == {"food", "minerals", "vitamins", "nutrition"}

\* C23: a store reads no source file before its first get_food_by_id /
\* get_requirements_by_key call, and over any sequence of calls it reads
\* each source file at most once: a cache that is set is never loaded again,
\* also when the file was missing or its load failed.
C23_LoadedLazilyOnce ==
    /\ [](/\ \A f \in SourceFiles : file_reads[f] <= 1
          /\ ~food_data_cache.loaded => file_reads.food = 0
          /\ ~data_cache.loaded =>
                \A f \in {"minerals", "vitamins", "nutrition"} : file_reads[f] = 0)
    /\ [][/\ file_reads'.food # file_reads.food =>
                call'.fn = "get_food_by_id" /\ ~food_data_cache.loaded
          /\ (\E f \in {"minerals", "vitamins", "nutrition"} :
                  file_reads'[f] # file_reads[f]) =>
                call'.fn = "get_requirements_by_key" /\ ~data_cache.loaded
          /\ food_data_cache.loaded => food_data_cache' = food_data_cache
          /\ data_cache.loaded => data_cache' = data_cache]_vars

\* a later get_food_by_id call, after a load that failed, opened no file
C23_Witness ==
    /\ call.fn = "get_food_by_id"
    /\ food_json = BrokenFoodFile
    /\ trace[1].opened = {}
    /\ file_reads.food = 1
    /\ food_data_cache = [loaded |-> TRUE, foods |-> {}]
    /\ data_cache.loaded
    /\ tables.minerals.file = "missing"
    /\ file_reads.minerals = 0

(***************************************************************************)
(* Building the documents, then looking the records up                     *)
(***************************************************************************)

\* a Python string that is a word or a run of digits
PyStr(text, digits) == [text |-> text, digits |-> digits]

\* str(food.get('fdcId')): the digits of the id, "None" for an item without
CacheKeyOf(food_item) ==
    IF food_item.fdcId = NoneInt THEN PyStr("None", <<>>)
    ELSE PyStr("", DecimalOf(food_item.fdcId[1]))

\* str(fdc_id) of get_food_by_id, for the fdc_id of a document's metadata
LookupKeyOf(fdc_id) == PyStr("", str(fdc_id))

\* {str(food.get('fdcId')): food for food in foods}: a later item replaces
\* an earlier one with the same key
FoodDataCacheOf(foods) ==
    [key \in {CacheKeyOf(foods[i]) : i \in 1..Len(foods)} |->
        foods[CHOOSE i \in 1..Len(foods) :
                 /\ CacheKeyOf(foods[i]) = key
                 /\ \A j \in 1..Len(foods) : CacheKeyOf(foods[j]) = key => j <= i]]

NoFood == [fdcId |-> NoneInt, description |-> 0, foodNutrients |-> <<>>]

\* get_food_by_id on a store whose json_path is the catalog: the cache entry,
\* else the fallback, whose metadata has no full_data, so None
FoodById(foods, fdc_id) ==
    LET cache == FoodDataCacheOf(foods)
        key == LookupKeyOf(fdc_id)
    IN  IF key \in DOMAIN cache THEN [found |-> TRUE, food |-> cache[key]]
        ELSE [found |-> FALSE, food |-> NoFood]

\* the documents of a catalog and, for each, get_food_by_id(metadata fdc_id)
BuildAndGetFoodCall ==
    /\ call = Idle
    /\ \E foods \in Catalogs :
       \E documents \in {process_all_foods(foods)} :
          /\ call' = [fn |-> "process_all_foods, get_food_by_id", foods |-> foods]
          /\ result' = [raised |-> None, documents |-> documents,
                        records |-> [i \in 1..Len(documents) |->
                                        FoodById(foods, documents[i].fdc_id)]]
    /\ trace' = <<>>
    /\ UNCHANGED <<storeVars, webVars>>

\* _load_data_cache on the three files the builder read
DataCacheOf(data) ==
    [loaded |-> TRUE,
     minerals |-> [shape |-> "dict", pairs |-> data.minerals.pairs],
     vitamins |-> [shape |-> "dict", pairs |-> data.vitamins.pairs],
     nutrition |-> [shape |-> "dict", pairs |-> data.nutrition.pairs]]

\* the documents of three tables and, for every pair,
\* get_requirements_by_key(age_group, gender)
BuildAndGetRequirementsCall ==
    /\ call = Idle
    /\ \E minerals \in DietaryTablesOfBuilder, vitamins \in DietaryTablesOfBuilder,
          nutrition \in DietaryTablesOfBuilder :
       \E data \in {[minerals |-> minerals, vitamins |-> vitamins,
                     nutrition |-> nutrition]} :
          /\ call' = [fn |-> "process_all_dietary_data, get_requirements_by_key",
                      data |-> data]
          /\ result' = [raised |-> None,
                        documents |-> process_all_dietary_data(data),
                        records |-> [p \in {"1", "19-64", "1_fe", "4-6"} \X Genders |->
                                        get_requirements_by_key(DataCacheOf(data),
                                                                p[1], p[2])]]
    /\ trace' = <<>>
    /\ UNCHANGED <<storeVars, webVars>>

\* the requirements half of the round trip
RequirementsRoundTrip ==
    call.fn = "process_all_dietary_data, get_requirements_by_key" =>
        LET documents == result.documents
        IN  /\ \A i \in 1..Len(documents) :
                  LET r == result.records[<<documents[i].age_group, documents[i].gender>>]
                  IN  /\ r.found
                      /\ r.minerals = documents[i].minerals
                      /\ r.vitamins = documents[i].vitamins
                      /\ r.nutrition = documents[i].nutrition
            /\ \A p \in DOMAIN result.records :
                  result.records[p].found <=>
                      \E i \in 1..Len(documents) :
                          documents[i].age_group = p[1] /\ documents[i].gender = p[2]

\* C24: for every document the builders produce, the lookup with the keys of
\* its metadata, on a store over the same source files, returns the record
\* the document was built from; and a requirements document exists for a pair
\* exactly when get_requirements_by_key returns a record for it.
C24_BuildThenLookup ==
    /\ call.fn = "process_all_foods, get_food_by_id" =>
          \A i \in 1..Len(result.documents) :
              /\ result.records[i].found
              /\ result.records[i].food = call.foods[i]
    /\ RequirementsRoundTrip

BuildNext ==
    \/ ProcessAllFoodsCall
    \/ ProcessAllDietaryDataCall
    \/ BuildAndGetFoodCall
    \/ BuildAndGetRequirementsCall
    \/ Return

SpecBuild == NutrientsInit /\ [][BuildNext]_vars

(***************************************************************************)
(* The startup of the HTTP service                                         *)
(***************************************************************************)

\* the startup made the call `m` and it raised
StartupRaised(calls, m) ==
    \E i \in 1..Len(calls) : calls[i].m = m /\ calls[i].raised # None

\* the service is up: the startup has returned
Started == call.fn \notin {"startup", "startup failed"}

\* C25: the startup is aborted exactly when the validation or the
\* construction of the agent fails; when the ElevenLabs client is not
\* configured or its construction fails the service starts with the agent set
\* and the client unset, and from then on every /api/tts request gets 503 and
\* /api/health reports agent_initialized = true.
C25_StartupFailures ==
    /\ [][call.fn = "startup" =>
            /\ call'.fn = "startup failed" <=>
                  \/ StartupRaised(trace', "AppConfig.validate")
                  \/ StartupRaised(trace', "NutritionAdvisorAgent")
            /\ (\/ StartupRaised(trace', "ElevenLabs")
                \/ \A i \in 1..Len(trace') : trace'[i].m # "ElevenLabs") =>
                  \/ call'.fn = "startup failed"
                  \/ call' = Idle /\ agent' # None /\ elevenlabs_client' = None]_vars
    /\ [](Started => agent # None)
    /\ [](Started /\ elevenlabs_client = None /\ TtsCalled =>
              result.status = 503 /\ trace = <<>>)
    /\ [](Started /\ call.fn = "health_check" => result.agent_initialized)
    /\ [][Started => agent' = agent /\ elevenlabs_client' = elevenlabs_client]_vars

\* the service has started although the construction of the ElevenLabs client
\* raised
C25_Witness ==
    /\ call = Idle
    /\ StartupRaised(trace, "ElevenLabs")
    /\ agent # None
    /\ elevenlabs_client = None

(***************************************************************************)
(* Ages below the lowest range                                             *)
(***************************************************************************)

\* C26: for every integer age below 1, no range of get_age_group contains
\* the age and get_age_group returns the fallback label "75+".
C26_BelowOneFallsBack ==
    (call.fn = "get_age_group" /\ call.age < 1) =>
        /\ \A i \in 1..Len(age_ranges) :
              ~(age_ranges[i][1] <= call.age /\ call.age <= age_ranges[i][2])
        /\ result.label = "75+"

C26_Witness ==
    call.fn = "get_age_group" /\ call.age = 0 /\ result.label = "75+"

\* C27 as stated: for every integer age below 1, get_age_group returns the
\* label "1" of the lowest range.
C27_AsStated ==
    (call.fn = "get_age_group" /\ call.age < 1) => result.label = "1"

\* C27, amended: ages below 1 are not passed to the lowest range:
\* get_age_group returns "1" for the age 1 only, and for an age below 1 it
\* returns the label of the highest range.
C27_LowestLabelOnlyForOne ==
    call.fn = "get_age_group" =>
        /\ result.label = "1" <=> call.age = 1
        /\ call.age < 1 => result.label = age_ranges[Len(age_ranges)][3]

C27_Witness ==
    call.fn = "get_age_group" /\ call.age = -1 /\ result.label # "1"

(***************************************************************************)
(* run_conversation_loop                                                   *)
(***************************************************************************)

\* the most lines of an input stream
MaxLines == 3

\* the lines typed: exit commands in several spellings, blank lines, requests
Lines ==
    {<<"b", "y", "e">>, <<"B", "y", "e">>, <<" ", "q", "u", "i", "t", " ">>,
     <<"e", "x", "i", "t">>, <<>>, <<" ">>, <<"h", "i">>, <<"b", "y", "e", "s">>}

ExitCommands == {<<"e", "x", "i", "t">>, <<"q", "u", "i", "t">>, <<"b", "y", "e">>}

\* a plausible slip: the comparison without .lower()
IsExitCommandExact(user_input) == user_input \in ExitCommands

\* user_input.lower() in ['exit', 'quit', 'bye']
IsExitCommand(user_input) == Lower(user_input) \in ExitCommands

\* the loop at `pc`, with the lines still to be read, what the last step met
\* and the input it holds
Loop(pc, stdin, event, user_input) ==
    [fn |-> "run_conversation_loop", pc |-> pc, stdin |-> stdin,
     event |-> event, user_input |-> user_input]

CliInit ==
    /\ \E stdin \in SeqsUpTo(Lines, MaxLines) : call = Loop("start", stdin, "", <<>>)
    /\ result = Idle
    /\ trace = <<>>
    /\ tables = DefaultTables
    /\ data_cache = EmptyCache
    /\ dietary_docs = <<>>
    /\ food_json = DefaultFoodFile
    /\ food_data_cache = EmptyFoodCache
    /\ food_docs = <<>>
    /\ elevenlabs_client = None
    /\ agent = "NutritionAdvisorAgent"
    /\ memory = <<"earlier">>
    /\ file_reads = NoReads
    /\ tavily_client = None

InLoop(pc) == call.fn = "run_conversation_loop" /\ call.pc = pc

\* agent.clear() before the loop
LoopClear ==
    /\ InLoop("start")
    /\ call' = Loop("input", call.stdin, "", <<>>)
    /\ memory' = <<>>
    /\ trace' = Append(trace, [m |-> "agent.clear", raised |-> None, text |-> <<>>])
    /\ UNCHANGED <<result, storeVars, elevenlabs_client, agent, tavily_client>>

\* input("You: ").strip() and the two tests; at the end of the input, input
\* raises EOFError
LoopInput ==
    /\ InLoop("input")
    /\ IF call.stdin = <<>>
       THEN call' = Loop("except", <<>>, "EOFError", <<>>)
       ELSE \E user_input \in {Strip(Head(call.stdin))} :
               call' = Loop(IF IsExitCommand(user_input) THEN "done"
                            ELSE IF user_input = <<>> THEN "input" ELSE "run",
                            Tail(call.stdin), "line", user_input)
    /\ UNCHANGED <<result, trace, storeVars, webVars>>

\* await agent.run(user_input): it returns, or raises an Exception, having
\* recorded the input or not
LoopRun ==
    /\ InLoop("run")
    /\ \E run_fails \in BOOLEAN, recorded \in BOOLEAN :
        /\ run_fails \/ recorded
        /\ call' = Loop(IF run_fails THEN "except" ELSE "input", call.stdin,
                        IF run_fails THEN "Exception" ELSE "response",
                        call.user_input)
        /\ memory' = IF recorded THEN Append(memory, call.user_input) ELSE memory
        /\ trace' = Append(trace, [m |-> "agent.run",
                                   raised |-> IF run_fails THEN "RuntimeError" ELSE None,
                                   text |-> call.user_input])
    /\ UNCHANGED <<result, storeVars, elevenlabs_client, agent, tavily_client>>

\* except Exception: the error is printed and the loop goes on
LoopExcept ==
    /\ InLoop("except")
    /\ call' = Loop("input", call.stdin, call.event, call.user_input)
    /\ UNCHANGED <<result, trace, storeVars, webVars>>

\* except KeyboardInterrupt, raised while input or agent.run waits: break
LoopInterrupt ==
    /\ InLoop("input") \/ InLoop("run")
    /\ call' = Loop("done", call.stdin, "KeyboardInterrupt", call.user_input)
    /\ UNCHANGED <<result, trace, storeVars, webVars>>

CliNext ==
    \/ LoopClear
    \/ LoopInput
    \/ LoopRun
    \/ LoopExcept
    \/ LoopInterrupt

SpecCli == CliInit /\ [][CliNext]_vars

\* the loop with every step but the keyboard interrupt taken in the end
SpecCliFair ==
    /\ CliInit
    /\ [][CliNext]_vars
    /\ WF_vars(LoopClear) /\ WF_vars(LoopInput) /\ WF_vars(LoopRun)
    /\ WF_vars(LoopExcept)

\* the calls of agent.<m> made so far
CallsOf(m) == {i \in 1..Len(trace) : trace[i].m = m}

\* C28: the loop clears the agent state once, before the first prompt; it
\* ends exactly when the trimmed input is exit, quit or bye in any case or
\* on a keyboard interrupt; it never passes an empty input or an exit command
\* to agent.run; and after agent.run raises an exception it prompts again.
C28_ConversationLoop ==
    /\ [](/\ call.pc # "start" => CallsOf("agent.clear") = {1}
          /\ call.pc = "start" => trace = <<>>
          /\ \A i \in CallsOf("agent.run") :
                /\ trace[i].text # <<>>
                /\ Strip(trace[i].text) = trace[i].text
                /\ Lower(trace[i].text) \notin ExitCommands
          /\ call.pc = "done" <=>
                \/ call.event = "KeyboardInterrupt"
                \/ call.event = "line" /\ Lower(call.user_input) \in ExitCommands)
    /\ [][/\ call.pc = "input" /\ call'.event = "line" =>
                call'.user_input = Strip(Head(call.stdin))
          /\ call.pc = "run" /\ call'.event = "Exception" => call'.pc = "except"
          /\ call.pc = "except" => call'.pc = "input"]_vars

\* the loop ended on "Bye" after an agent.run that raised
C28_Witness ==
    /\ call.pc = "done"
    /\ call.event = "line"
    /\ call.user_input = <<"B", "y", "e">>
    /\ \E i \in CallsOf("agent.run") : trace[i].raised # None
    /\ CallsOf("agent.clear") = {1}

\* C29: on every finite input stream the loop stops once the input has
\* ended without an exit command.
C29_LoopStops == <>(call.pc = "done")

(***************************************************************************)
(* Two chat sessions on the one agent                                      *)
(***************************************************************************)

\* two clients, by the session_id each was given
Sessions == {"abc", "session_1"}

\* the messages a client sends; no message is sent by both
MessagesOf(session) ==
    IF session = "abc" THEN {"abc: hello", "abc: and then?"}
    ELSE {"session_1: hello"}

\* the service after a startup that built the agent
SessionsInit ==
    /\ call = Idle
    /\ result = Idle
    /\ trace = <<>>
    /\ tables = DefaultTables
    /\ data_cache = EmptyCache
    /\ dietary_docs = Take(DietaryRanking, 2)
    /\ food_json = DefaultFoodFile
    /\ food_data_cache = EmptyFoodCache
    /\ food_docs = Take(FoodRanking, 2)
    /\ agent = "NutritionAdvisorAgent"
    /\ memory = <<>>
    /\ file_reads = NoReads
    /\ tavily_client = None
    /\ elevenlabs_client \in {None, "ElevenLabs"}

\* POST /api/chat by one of the clients: with its session_id, or with "new"
\* or no session_id to start over
SessionChatCall ==
    /\ call = Idle
    /\ \E session \in Sessions, run_fails \in BOOLEAN, recorded \in BOOLEAN :
       \E text \in MessagesOf(session), session_id \in {session, "new", None} :
        /\ StartsSession(session_id) \/ Len(memory) < MaxMemory
        /\ run_fails \/ recorded
        /\ \E out \in {chat(agent, memory,
                            [message |-> text, session_id |-> session_id],
                            run_fails, recorded)} :
            /\ call' = [fn |-> "chat", session_id |-> session_id,
                        message |-> text, run_fails |-> run_fails,
                        session |-> session]
            /\ result' = out.response
            /\ trace' = out.trace
            /\ memory' = out.memory
    /\ UNCHANGED <<storeVars, elevenlabs_client, agent, tavily_client>>

SessionsNext ==
    \/ SessionChatCall
    \/ Return

SpecSessions == SessionsInit /\ [][SessionsNext]_vars

\* the messages of a client in a conversation state, in order
Own(state, session) == SelectSeq(state, LAMBDA text : text \in MessagesOf(session))

\* C30: the conversation state a request with an existing session_id sees
\* holds messages of its own session only, and a request leaves the messages
\* of every other session in the state as they were: it neither clears them
\* nor adds to them.
C30_SessionsIsolated ==
    [][call'.fn = "chat" =>
          /\ ~StartsSession(call'.session_id) =>
                Own(memory, call'.session) = memory
          /\ \A other \in Sessions \ {call'.session} :
                Own(memory', other) = Own(memory, other)]_vars

=============================================================================
